---- MODULE Spec2Model ----
(***************************************************************************)
(* Matching engine of scripts/rcrainfo_account_profile/main.py             *)
(* (RCRASearcher): the durable relation account_matched_facilities, the    *)
(* view handler_owner_operator over the facility tables, and the           *)
(* delete / search / summarise life cycle of RCRASearcher.run.             *)
(*                                                                         *)
(* Text is modelled character by character: a string is a sequence of      *)
(* one-character strings.  A pandas cell is [na, s] (na: the cell is NaN), *)
(* an SQL value is [null, s].  DuckDB runs every con.execute in its own    *)
(* transaction (autocommit), so every statement is one committed step.     *)
(***************************************************************************)
EXTENDS Integers, Sequences, FiniteSets, Bags, TLC

\* ------------------------------------------------------------------ bounds
MaxBatch == 2
MaxRuns == 2

\* ------------------------------------------------------------ text helpers
LowerChars == <<"a","b","c","d","e","f","g","h","i","j","k","l","m",
                "n","o","p","q","r","s","t","u","v","w","x","y","z">>
UpperChars == <<"A","B","C","D","E","F","G","H","I","J","K","L","M",
                "N","O","P","Q","R","S","T","U","V","W","X","Y","Z">>
DigitChars == {"0","1","2","3","4","5","6","7","8","9"}

Range(f) == {f[i] : i \in DOMAIN f}

\* str.upper() / SQL UPPER and str.lower() / SQL LOWER, per character
UpperOf == [c \in Range(LowerChars) |->
               UpperChars[CHOOSE i \in DOMAIN LowerChars : LowerChars[i] = c]]
LowerOf == [c \in Range(UpperChars) |->
               LowerChars[CHOOSE i \in DOMAIN UpperChars : UpperChars[i] = c]]
UpperChar(c) == IF c \in DOMAIN UpperOf THEN UpperOf[c] ELSE c
LowerChar(c) == IF c \in DOMAIN LowerOf THEN LowerOf[c] ELSE c

Upper(s) == [i \in 1..Len(s) |-> UpperChar(s[i])]
Lower(s) == [i \in 1..Len(s) |-> LowerChar(s[i])]

\* str.strip(): leading and trailing white space removed
RECURSIVE LStrip(_)
LStrip(s) == IF s # <<>> /\ Head(s) = " " THEN LStrip(Tail(s)) ELSE s
RECURSIVE RStrip(_)
RStrip(s) ==
    IF s # <<>> /\ s[Len(s)] = " " THEN RStrip(SubSeq(s, 1, Len(s) - 1)) ELSE s
Strip(s) == RStrip(LStrip(s))

\* str.split(sep) for a one-character separator: always at least one piece
RECURSIVE SplitFrom(_, _, _)
SplitFrom(s, sep, cur) ==
    IF s = <<>> THEN <<cur>>
    ELSE IF Head(s) = sep THEN <<cur>> \o SplitFrom(Tail(s), sep, <<>>)
    ELSE SplitFrom(Tail(s), sep, Append(cur, Head(s)))
Split(s, sep) == SplitFrom(s, sep, <<>>)

\* [x.strip() for x in s.split(';') if x.strip()]
RECURSIVE StripNonEmpty(_)
StripNonEmpty(pieces) ==
    IF pieces = <<>> THEN <<>>
    ELSE IF Strip(Head(pieces)) = <<>> THEN StripNonEmpty(Tail(pieces))
    ELSE <<Strip(Head(pieces))>> \o StripNonEmpty(Tail(pieces))

\* sep.join(parts)
RECURSIVE Join(_, _)
Join(parts, sep) ==
    IF parts = <<>> THEN <<>>
    ELSE IF Len(parts) = 1 THEN parts[1]
    ELSE parts[1] \o sep \o Join(Tail(parts), sep)

\* t occurs in s as a run of consecutive characters (a substring)
Contains(s, t) ==
    \E i \in 1..(Len(s) - Len(t) + 1) : SubSeq(s, i, i + Len(t) - 1) = t

\* -------------------------------------------------------------- SQL values
Null == [null |-> TRUE, s |-> <<>>]
Val(s) == [null |-> FALSE, s |-> s]
NaN == [na |-> TRUE, s |-> <<>>]
Cell(s) == [na |-> FALSE, s |-> s]

\* regexp_extract(email, '@(.+)$', 1): the text after the first '@' that has
\* at least one character after it; '' when there is none
regexp_extract_domain(s) ==
    IF \E i \in 1..(Len(s) - 1) : s[i] = "@"
    THEN LET i == CHOOSE k \in 1..(Len(s) - 1) :
                      s[k] = "@" /\ \A j \in 1..(k - 1) : s[j] # "@"
         IN SubSeq(s, i + 1, Len(s))
    ELSE <<>>

\* STRING_AGG(v, '; ') over the rows of a group, in order: NULL inputs are
\* skipped, NULL when nothing is left
RECURSIVE NonNull(_)
NonNull(vals) ==
    IF vals = <<>> THEN <<>>
    ELSE IF Head(vals).null THEN NonNull(Tail(vals))
    ELSE <<Head(vals).s>> \o NonNull(Tail(vals))
STRING_AGG(vals) ==
    IF NonNull(vals) = <<>> THEN Null ELSE Val(Join(NonNull(vals), <<";", " ">>))

\* ------------------------------------------------------------ the facility data
\* Text used by the accounts and the facilities of the model
s_AcmeCorp == <<"A","c","m","e"," ","C","o","r","p">>
s_AcmeTerms == <<"A","c","m","e"," ","C","o","r","p",";","A","c","m","e">>
s_acme_com == <<"a","c","m","e",".","c","o","m">>
s_ACME_CORP_LLC == <<"A","C","M","E"," ","C","O","R","P"," ","L","L","C">>
s_jane == <<"j","a","n","e","@","a","c","m","e",".","c","o","m">>
s_na == <<"n","/","a">>
s_al == <<"A","l","@","A","C","M","E",".","c","o","m">>
s_bob == <<"b","o","b","@","a","c","m","e",".","c","o","m">>
s_ann == <<"a","n","n","@","a","c","m","e",".","c","o","m",".","m","x">>
s_ops == <<"o","p","s","@","n","o","t","a","c","m","e",".","c","o","m">>
s_Nil == <<"N","i","l">>
s_Void == <<"V","o","i","d">>
s_blank == <<" ",";"," ">>

HandlerIds == {"F1", "F2"}

\* hd_handler rows (current_record is the state variable of that name)
Handler(id) ==
    CASE id = "F1" -> [handler_id |-> "F1", handler_name |-> Val(s_ACME_CORP_LLC),
                       contact_email_address |-> Val(s_jane)]
      [] id = "F2" -> [handler_id |-> "F2", handler_name |-> Null,
                       contact_email_address |-> Val(s_al)]

\* hd_owner_operator rows, in table order
hd_owner_operator ==
    << [handler_id |-> "F1", owner_operator_indicator |-> "CO",
        owner_operator_name |-> Null, email |-> Val(s_ann)],
       [handler_id |-> "F1", owner_operator_indicator |-> "CP",
        owner_operator_name |-> Null, email |-> Val(s_ops)],
       [handler_id |-> "F2", owner_operator_indicator |-> "CO",
        owner_operator_name |-> Null, email |-> Val(s_bob)],
       [handler_id |-> "F2", owner_operator_indicator |-> "CO",
        owner_operator_name |-> Null, email |-> Val(s_ops)],
       [handler_id |-> "F2", owner_operator_indicator |-> "CP",
        owner_operator_name |-> Null, email |-> Val(s_na)] >>

\* search-term rows (one CSV row each, as pd.read_csv yields them)
AcmeRow == [account_id |-> "A1", account_name |-> Cell(s_AcmeCorp),
            name_terms |-> Cell(s_AcmeTerms), email_terms |-> Cell(s_acme_com)]
NilRow  == [account_id |-> "A2", account_name |-> Cell(s_Nil),
            name_terms |-> Cell(s_blank), email_terms |-> NaN]
VoidRow == [account_id |-> "A3", account_name |-> Cell(s_Void),
            name_terms |-> NaN, email_terms |-> NaN]
TermRows == {AcmeRow, NilRow, VoidRow}

\* the search-term files a run may be given: 0..MaxBatch rows
Batches == UNION {[1..n -> TermRows] : n \in 0..MaxBatch}

\* ------------------------------------------------------------------- state
VARIABLES
    current_record,              \* hd_handler.current_record, per handler: "Y" / "N"
    account_matched_facilities,  \* the durable relation: a bag of rows
    search_terms,                \* self.search_terms of the running searcher
    pc,                          \* "idle", "searching", "done", "failed"
    idx,                         \* the row of search_terms the loop of run is at
    results,                     \* run's list of per-account result dicts
    search_summary,              \* search_summary.csv: [run, rows]
    error,                       \* the exception that ended the run, if any
    searched,                    \* rows search() was called for in this run
    runs,                        \* number of runs started
    pre,                         \* account_matched_facilities when the run started
    prev,                        \* outcome of the run just before this one
    columns                      \* self.search_terms.columns

\* the state of the compliance-summary script (rcrainfo_account_violations)
VARIABLES
    current_year,                \* date.today().year
    arg,                         \* the argument of a call of a math helper
    ret,                         \* what the call returned
    YEARS_LOOKBACK,              \* the environment's YEARS_LOOKBACK
    ce_reporting,                \* the table ce_reporting
    EVALS_WIN,                   \* the four tables fetched by the script
    VIOLATIONS_WIN,
    ENFS_WIN,
    FACILITIES,
    todo,                        \* the keys a comprehension has still to visit
    contact_rows,                \* the list contact_rows
    account_rows,                \* the list account_rows
    contact_df,                  \* the rows of contact_df
    account_df,                  \* the rows of account_df
    script_pc,                   \* where the script is
    raised,                      \* what ended the script early
    SRC,                         \* the account file the join script read last
    joins                        \* the runs of the join script so far

script_vars == <<YEARS_LOOKBACK, ce_reporting, EVALS_WIN, VIOLATIONS_WIN, ENFS_WIN,
                 FACILITIES, todo, contact_rows, account_rows, contact_df, account_df,
                 script_pc, raised>>

join_vars == <<SRC, joins>>

summary_vars == <<current_year, arg, ret, script_vars, join_vars>>

\* the join script has not run
JoinIdle == SRC = <<>> /\ joins = 0

\* nothing of the script has run
ScriptIdle ==
    /\ YEARS_LOOKBACK = 0
    /\ ce_reporting = {}
    /\ EVALS_WIN = {}
    /\ VIOLATIONS_WIN = {}
    /\ ENFS_WIN = {}
    /\ FACILITIES = {}
    /\ todo = {}
    /\ contact_rows = <<>>
    /\ account_rows = <<>>
    /\ contact_df = <<>>
    /\ account_df = <<>>
    /\ script_pc = "off"
    /\ raised = ""

\* the compliance-summary script has not been started
SummaryIdle ==
    /\ current_year = 0
    /\ arg = [fn |-> "none"]
    /\ ret = [fn |-> "none", raised |-> FALSE]
    /\ ScriptIdle
    /\ JoinIdle

rcra_vars == <<current_record, account_matched_facilities, search_terms, pc, idx,
               results, search_summary, error, searched, runs, pre, prev, columns>>

vars == <<rcra_vars, summary_vars>>

\* ------------------------------------------------- handler_owner_operator
\* the rows of hd_owner_operator of one facility with one indicator, in order
RECURSIVE GroupRows(_, _)
GroupRows(rows, id) ==
    IF rows = <<>> THEN <<>>
    ELSE IF Head(rows).handler_id = id THEN <<Head(rows)>> \o GroupRows(Tail(rows), id)
    ELSE GroupRows(Tail(rows), id)

\* the CTE owner_operator_agg for one group; all NULL when the LEFT JOIN finds
\* no group
owner_operator_agg(id) ==
    LET g == GroupRows(hd_owner_operator, id)
        names(ind) == [i \in 1..Len(g) |->
            IF g[i].owner_operator_indicator = ind
            THEN g[i].owner_operator_name ELSE Null]
        domains(ind) == [i \in 1..Len(g) |->
            IF g[i].owner_operator_indicator = ind /\ ~g[i].email.null
            THEN Val(regexp_extract_domain(g[i].email.s)) ELSE Null]
    IN [owner_names |-> STRING_AGG(names("CO")),
        operator_names |-> STRING_AGG(names("CP")),
        owner_email_domains |-> STRING_AGG(domains("CO")),
        operator_email_domains |-> STRING_AGG(domains("CP"))]

\* one row of the view
ViewRow(id) ==
    LET h == Handler(id)
        o == owner_operator_agg(id)
    IN [handler_id |-> h.handler_id,
        handler_name |-> h.handler_name,
        contact_email_address |-> h.contact_email_address,
        contact_email_domain |->
            IF h.contact_email_address.null THEN Null
            ELSE Val(regexp_extract_domain(h.contact_email_address.s)),
        owner_names |-> o.owner_names,
        operator_names |-> o.operator_names,
        owner_email_domains |-> o.owner_email_domains,
        operator_email_domains |-> o.operator_email_domains]

\* the view: WHERE h.current_record = 'Y'
handler_owner_operator(cr) == {ViewRow(id) : id \in {h \in HandlerIds : cr[h] = "Y"}}

\* ------------------------------------------------------ predicate building
\* \w: the word characters of the regular expression
WordChars == Range(LowerChars) \cup Range(UpperChars) \cup DigitChars \cup {"_"}
WordChar(c) == c \in WordChars
IsWordAt(s, p) == p >= 1 /\ p <= Len(s) /\ WordChar(s[p])
\* \b between positions p and p+1 of s (p = 0 .. Len(s))
WordBoundary(s, p) == IsWordAt(s, p) # IsWordAt(s, p + 1)

\* faulty variant: the terms are not upper-cased
RECURSIVE create_word_pattern_no_upper(_)
create_word_pattern_no_upper(terms) ==
    IF terms = <<>> THEN <<>>
    ELSE StripNonEmpty(Split(Head(terms), ";")) \o create_word_pattern_no_upper(Tail(terms))

\* self._create_word_pattern(terms): the alternatives of the alternation, each
\* standing for \b + re.escape(cleaned.upper()) + \b; <<>> is the empty pattern
RECURSIVE create_word_pattern(_)
create_word_pattern(terms) ==
    IF terms = <<>> THEN <<>>
    ELSE LET subs == StripNonEmpty(Split(Head(terms), ";"))
         IN [i \in 1..Len(subs) |-> Upper(subs[i])] \o create_word_pattern(Tail(terms))

\* one alternative \bTOK\b found in s starting at position i
TokenMatchesAt(s, tok, i) ==
    /\ i + Len(tok) - 1 <= Len(s)
    /\ SubSeq(s, i, i + Len(tok) - 1) = tok
    /\ WordBoundary(s, i - 1)
    /\ WordBoundary(s, i + Len(tok) - 1)

\* regexp_matches(s, '(' + pattern + ')') on a non-NULL s: a partial match;
\* the empty group '()' matches every string
regexp_matches(s, pattern) ==
    IF pattern = <<>> THEN TRUE
    ELSE \E k \in 1..Len(pattern) : \E i \in 1..Len(s) : TokenMatchesAt(s, pattern[k], i)

\* name_list, line 326
name_list(row) == StripNonEmpty(Split(row.name_terms.s, ";"))
\* email_list, line 327
email_list(row) ==
    IF row.email_terms.na THEN <<>>
    ELSE LET l == StripNonEmpty(Split(row.email_terms.s, ";"))
         IN [i \in 1..Len(l) |-> Lower(l[i])]

\* conds_name[k]: COALESCE(regexp_matches(UPPER(field), '(pattern)'), false)
cond_name(row, field) ==
    IF field.null THEN FALSE
    ELSE regexp_matches(Upper(field.s), create_word_pattern(name_list(row)))

\* faulty variant: a domain term matches when the field contains it
cond_email_substring(row, field) ==
    IF email_list(row) = <<>> \/ field.null THEN FALSE
    ELSE \E k \in 1..Len(email_list(row)) : Contains(Lower(field.s), email_list(row)[k])

\* conds_email[k]: COALESCE(LOWER(field) IN (domains), false); FALSE when
\* email_list is empty
cond_email(row, field) ==
    IF email_list(row) = <<>> \/ field.null THEN FALSE
    ELSE Lower(field.s) \in Range(email_list(row))

handler_name_match(row, h) == cond_name(row, h.handler_name)
owner_name_match(row, h) == cond_name(row, h.owner_names)
operator_name_match(row, h) == cond_name(row, h.operator_names)
contact_email_match(row, h) == cond_email(row, h.contact_email_domain)
owner_email_match(row, h) == cond_email(row, h.owner_email_domains)
operator_email_match(row, h) == cond_email(row, h.operator_email_domains)

\* faulty variant: the e-mail conditions are left out of the WHERE clause
where_clause_names_only(row, h) ==
    \/ cond_name(row, h.handler_name)
    \/ cond_name(row, h.owner_names)
    \/ cond_name(row, h.operator_names)

\* the WHERE clause of the CTE matches, lines 364-365
where_clause(row, h) ==
    \/ cond_name(row, h.handler_name)
    \/ cond_name(row, h.owner_names)
    \/ cond_name(row, h.operator_names)
    \/ cond_email(row, h.contact_email_domain)
    \/ cond_email(row, h.owner_email_domains)
    \/ cond_email(row, h.operator_email_domains)

\* one row of the CTE matches: the SELECT list, lines 353-362
match_row(row, h) ==
    [account_id |-> row.account_id,
     account_name |-> row.account_name.s,
     h |-> h,
     handler_name_match |-> handler_name_match(row, h),
     owner_name_match |-> owner_name_match(row, h),
     operator_name_match |-> operator_name_match(row, h),
     contact_email_match |-> contact_email_match(row, h),
     owner_email_match |-> owner_email_match(row, h),
     operator_email_match |-> operator_email_match(row, h)]

\* the rows INSERT INTO account_matched_facilities SELECT * FROM matches adds
matches(row, cr) ==
    SetToBag({match_row(row, h) : h \in {v \in handler_owner_operator(cr) : where_clause(row, v)}})

\* ---------------------------------------------------------- RCRASearcher
\* the rows of bag B that are in the set S, with their counts
BagFilter(B, S) == [r \in DOMAIN B \cap S |-> B[r]]

\* list(self.search_terms['account_id'].unique())
unique_ids(terms) == {terms[i].account_id : i \in 1..Len(terms)}

\* faulty variant: DELETE without the WHERE clause (every account's rows go)
delete_all_records(table, terms) ==
    IF unique_ids(terms) = {} THEN table ELSE EmptyBag

\* faulty variant: the delete is skipped
delete_no_records(table, terms) == table

\* self._delete_old_records_for_accounts(): DELETE ... WHERE account_id IN (ids),
\* nothing when there are no ids
delete_old_records_for_accounts(table, terms) ==
    IF unique_ids(terms) = {} THEN table
    ELSE BagFilter(table, {r \in DOMAIN table : r.account_id \notin unique_ids(terms)})

\* SELECT COUNT(*) ... WHERE account_id=? AND account_name=? [AND col]
q_count(table, row, col) ==
    BagCardinality(BagFilter(table,
        {r \in DOMAIN table : /\ r.account_id = row.account_id
                              /\ r.account_name = row.account_name.s
                              /\ (col = "" \/ r[col])}))

\* the dict search() returns, lines 384-394, read from the table after the insert
search_result(table, row) ==
    [account_id |-> row.account_id,
     account_name |-> row.account_name.s,
     total_matches |-> q_count(table, row, ""),
     handler_name_match |-> q_count(table, row, "handler_name_match"),
     owner_name_match |-> q_count(table, row, "owner_name_match"),
     operator_name_match |-> q_count(table, row, "operator_name_match"),
     contact_email_match |-> q_count(table, row, "contact_email_match"),
     owner_email_match |-> q_count(table, row, "owner_email_match"),
     operator_email_match |-> q_count(table, row, "operator_email_match")]

\* lines 326-331 run before the try: name_terms.split and account_name.replace
\* raise AttributeError on a NaN cell (pd.read_csv reads an empty cell as NaN)
prelude_raises(row) == row.name_terms.na \/ row.account_name.na

\* the columns run() and search() read from every row of the search terms
needed == {"account_id", "account_name", "name_terms", "email_terms"}

NoError == [raised |-> FALSE, idx |-> 0, attributed |-> FALSE, account_name |-> <<>>]
NoPrev == [valid |-> FALSE, terms |-> <<>>, matched |-> EmptyBag, summary |-> <<>>]

Init ==
    /\ current_record \in [HandlerIds -> {"Y", "N"}]
    /\ account_matched_facilities = EmptyBag
    /\ search_terms = <<>>
    /\ pc = "idle"
    /\ idx = 0
    /\ results = <<>>
    /\ search_summary = [run |-> 0, rows |-> <<>>]
    /\ error = NoError
    /\ searched = <<>>
    /\ runs = 0
    /\ pre = account_matched_facilities
    /\ prev = NoPrev
    /\ columns = needed
    /\ SummaryIdle

\* RCRASearcher(input_file, ...).run() up to its loop: the search terms are
\* loaded and the old rows of the batch's accounts are deleted
run_start(batch) ==
    /\ pc # "searching"
    /\ runs < MaxRuns
    /\ runs' = runs + 1
    /\ search_terms' = batch
    /\ pre' = account_matched_facilities
    /\ prev' = IF pc = "done"
               THEN [valid |-> TRUE, terms |-> search_terms,
                     matched |-> account_matched_facilities,
                     summary |-> search_summary.rows]
               ELSE NoPrev
    /\ account_matched_facilities' =
           delete_old_records_for_accounts(account_matched_facilities, batch)
    /\ pc' = "searching"
    /\ idx' = 1
    /\ results' = <<>>
    /\ error' = NoError
    /\ searched' = <<>>
    /\ columns' = needed
    /\ UNCHANGED <<current_record, search_summary, summary_vars>>

\* one iteration of run's loop whose search() returns: the insert, then the counts
search ==
    /\ pc = "searching"
    /\ idx <= Len(search_terms)
    /\ ~prelude_raises(search_terms[idx])
    /\ LET row == search_terms[idx]
           table == account_matched_facilities (+) matches(row, current_record)
       IN /\ account_matched_facilities' = table
          /\ results' = Append(results, search_result(table, row))
    /\ searched' = Append(searched, idx)
    /\ idx' = idx + 1
    /\ UNCHANGED <<current_record, search_terms, pc, search_summary, error, runs, pre,
                   prev, columns, summary_vars>>

\* search() raises before its try block (lines 326-331): nothing is caught or
\* printed, and run has no handler, so the exception leaves run
search_raises_before_try ==
    /\ pc = "searching"
    /\ idx <= Len(search_terms)
    /\ prelude_raises(search_terms[idx])
    /\ searched' = Append(searched, idx)
    /\ error' = [raised |-> TRUE, idx |-> idx, attributed |-> FALSE, account_name |-> <<>>]
    /\ pc' = "failed"
    /\ UNCHANGED <<current_record, account_matched_facilities, search_terms, idx,
                   results, search_summary, runs, pre, prev, columns, summary_vars>>

\* faulty variant: run catches the exception of a search and goes on to the next row
search_raises_swallowed ==
    /\ pc = "searching"
    /\ idx <= Len(search_terms)
    /\ ~prelude_raises(search_terms[idx])
    /\ searched' = Append(searched, idx)
    /\ error' = [raised |-> TRUE, idx |-> idx, attributed |-> TRUE,
                 account_name |-> search_terms[idx].account_name.s]
    /\ idx' = idx + 1
    /\ UNCHANGED <<current_record, account_matched_facilities, search_terms, pc,
                   results, search_summary, runs, pre, prev, columns, summary_vars>>

\* the INSERT of search() raises (the store fails): the except clause prints the
\* account name and re-raises, and run has no handler
search_raises_in_try ==
    /\ pc = "searching"
    /\ idx <= Len(search_terms)
    /\ ~prelude_raises(search_terms[idx])
    /\ searched' = Append(searched, idx)
    /\ error' = [raised |-> TRUE, idx |-> idx, attributed |-> TRUE,
                 account_name |-> search_terms[idx].account_name.s]
    /\ pc' = "failed"
    /\ UNCHANGED <<current_record, account_matched_facilities, search_terms, idx,
                   results, search_summary, runs, pre, prev, columns, summary_vars>>

\* the end of run, lines 414-417: the summary file is written
run_finish ==
    /\ pc = "searching"
    /\ idx > Len(search_terms)
    /\ search_summary' = [run |-> runs, rows |-> results]
    /\ pc' = "done"
    /\ UNCHANGED <<current_record, account_matched_facilities, search_terms, idx,
                   results, error, searched, runs, pre, prev, columns, summary_vars>>

\* between runs the facility tables are dropped and loaded again, so the set of
\* current records changes; the searcher process of the last run is gone, and
\* with it its in-memory state
snapshot_change(cr) ==
    /\ pc # "searching"
    /\ cr # current_record
    /\ current_record' = cr
    /\ pc' = "idle"
    /\ search_terms' = <<>>
    /\ idx' = 0
    /\ results' = <<>>
    /\ error' = NoError
    /\ searched' = <<>>
    /\ pre' = account_matched_facilities
    /\ prev' = NoPrev
    /\ columns' = needed
    /\ UNCHANGED <<account_matched_facilities, search_summary, runs, summary_vars>>

Next ==
    \/ \E batch \in Batches : run_start(batch)
    \/ search
    \/ search_raises_before_try
    \/ search_raises_in_try
    \/ run_finish
    \/ \E cr \in [HandlerIds -> {"Y", "N"}] : snapshot_change(cr)

Spec == Init /\ [][Next]_vars

\* ------------------------------------- search terms that lack a column
\* the column sets of a search-terms file that lacks one of the needed columns
LackingColumnSets == {needed \ {c} : c \in needed}

\* a row of a DataFrame that has only the columns cols
Project(row, cols) == [c \in cols |-> row[c]]

\* RCRASearcher(input_file, ...).run() on a file without one of the columns:
\* __init__ reads the file without looking at its columns; run() raises KeyError
\* at self.search_terms['account_id'] (line 313) when that column is missing,
\* otherwise it deletes the old rows and raises KeyError at the first row's
\* row[...] (lines 405-410); with no row at all the loop body never runs
run_lacking_columns(batch, cols) ==
    /\ pc # "searching"
    /\ runs < MaxRuns
    /\ runs' = runs + 1
    /\ columns' = cols
    /\ search_terms' = [i \in 1..Len(batch) |-> Project(batch[i], cols)]
    /\ pre' = account_matched_facilities
    /\ prev' = NoPrev
    /\ results' = <<>>
    /\ searched' = <<>>
    /\ IF "account_id" \notin cols
       THEN /\ UNCHANGED account_matched_facilities
            /\ pc' = "failed"
            /\ idx' = 0
            /\ error' = [raised |-> TRUE, idx |-> 0, attributed |-> FALSE,
                         account_name |-> <<>>]
       ELSE /\ account_matched_facilities' =
                   delete_old_records_for_accounts(account_matched_facilities, batch)
            /\ idx' = 1
            /\ IF batch = <<>>
               THEN pc' = "searching" /\ error' = NoError
               ELSE /\ pc' = "failed"
                    /\ error' = [raised |-> TRUE, idx |-> 1, attributed |-> FALSE,
                                 account_name |-> <<>>]
    /\ UNCHANGED <<current_record, search_summary, summary_vars>>

SchemaNext ==
    \/ Next
    \/ \E batch \in Batches : \E cols \in LackingColumnSets :
           run_lacking_columns(batch, cols)

SchemaSpec == Init /\ [][SchemaNext]_vars

\* ------------------------------------------------------------ math helpers
\* (rcrainfo_account_violations, section 3)
\* Python None / an integer
None == [none |-> TRUE, v |-> 0]
Some(v) == [none |-> FALSE, v |-> v]

\* the characters of the model in code-point order, for string comparison
CodePoints ==
    <<" ","'","(",")","-",".","/","0","1","2","3","4","5","6","7","8","9",";","@">>
    \o UpperChars \o <<"_">> \o LowerChars
Ord(c) == CHOOSE i \in 1..Len(CodePoints) : CodePoints[i] = c

\* a < b for strings, as Python and SQL compare them (code point by code point)
RECURSIVE StrLess(_, _)
StrLess(a, b) ==
    IF b = <<>> THEN FALSE
    ELSE IF a = <<>> THEN TRUE
    ELSE IF Head(a) = Head(b) THEN StrLess(Tail(a), Tail(b))
    ELSE Ord(Head(a)) < Ord(Head(b))

\* the first of a non-empty set of strings in sorted order
FirstStr(S) == CHOOSE a \in S : \A b \in S \ {a} : StrLess(a, b)

Min(S) == CHOOSE x \in S : \A y \in S : x <= y
Max(S) == CHOOSE x \in S : \A y \in S : x >= y

\* Series.sum(): the sum of f over the set S
RECURSIVE SetSum(_, _)
SetSum(S, f) ==
    IF S = {} THEN 0
    ELSE LET x == CHOOSE y \in S : TRUE IN f[x] + SetSum(S \ {x}, f)

\* a / b (b > 0) rounded to the nearest integer, halves to the even one: round()
RoundHalfEven(a, b) ==
    LET q == a \div b
        r == a % b
    IN IF 2 * r < b THEN q
       ELSE IF 2 * r > b THEN q + 1
       ELSE IF q % 2 = 0 THEN q ELSE q + 1

\* np.polyfit(years, values, 1)[0]: the least-squares slope, as the fraction
\* num / den.  The slope does not change when all years are shifted, and the
\* years are taken relative to the first one to keep the sums small.
polyfit(years, values) ==
    LET x0 == Min(years)
        n == Cardinality(years)
        Sx == SetSum(years, [y \in years |-> y - x0])
        Sy == SetSum(years, values)
        Sxy == SetSum(years, [y \in years |-> (y - x0) * values[y]])
        Sxx == SetSum(years, [y \in years |-> (y - x0) * (y - x0)])
    IN [num |-> n * Sxy - Sx * Sy, den |-> n * Sxx - Sx * Sx]

\* A slope percentage in hundredths: the value is h / 100, or (h / 100) * 10^9
\* when e9 (the base value was replaced by 1e-9)
Hundredths(h, e9) == [h |-> h, e9 |-> e9]

\* slope_pct(years, values): values is a Series indexed by year (ascending, one
\* row per year), years its index
slope_pct(years, values) ==
    IF Cardinality(years) < 2 \/ SetSum(years, values) = 0
    THEN Hundredths(0, FALSE)
    ELSE LET base_val == values[Min(years)]
             m == polyfit(years, values)
         IN IF base_val = 0
            THEN Hundredths(RoundHalfEven(10000 * m.num, m.den), TRUE)
            ELSE Hundredths(RoundHalfEven(10000 * m.num, m.den * base_val), FALSE)

\* thresh=2, the default of spike_year
thresh == 2

\* n * n times the population variance of values: n * sum(v^2) - sum(v)^2
ScaledVar(years, values) ==
    LET n == Cardinality(years)
        S == SetSum(years, values)
        Q == SetSum(years, [y \in years |-> values[y] * values[y]])
    IN n * Q - S * S

\* every intermediate result of mean, std and z is an integer, so that the
\* floating-point evaluation is exact
ExactInFloat(years, values) ==
    LET n == Cardinality(years)
    IN /\ SetSum(years, values) % n = 0
       /\ \E k \in 1..Max({values[y] : y \in years}) :
              ScaledVar(years, values) = n * n * k * k

\* faulty variant: a z-score of 1 is already a spike
spike_year_from_one(years, values) ==
    IF ScaledVar(years, values) = 0 THEN {None}
    ELSE LET n == Cardinality(years)
             yr == Min({y \in years : \A w \in years : values[w] <= values[y]})
             dev == n * values[yr] - SetSum(years, values)
         IN IF dev * dev >= ScaledVar(years, values) THEN {Some(yr)} ELSE {None}

\* spike_year(years, values): the set of results the floating-point evaluation
\* can give.  z.idxmax() is the first year with the largest count; its z-score
\* is (n v - S) / sqrt(n Q - S^2).  When the z-score is exactly thresh and the
\* evaluation is not exact, rounding decides on which side of thresh the
\* computed z-score falls.
spike_year(years, values) ==
    IF ScaledVar(years, values) = 0 THEN {None}
    ELSE LET n == Cardinality(years)
             yr == Min({y \in years : \A w \in years : values[w] <= values[y]})
             dev == n * values[yr] - SetSum(years, values)
             lhs == dev * dev
             rhs == thresh * thresh * ScaledVar(years, values)
         IN IF lhs > rhs THEN {Some(yr)}
            ELSE IF lhs < rhs THEN {None}
            ELSE IF ExactInFloat(years, values) THEN {Some(yr)}
            ELSE {None, Some(yr)}

\* df[cnt_col] summed over the rows of one type
TypeSum(rows, type) == SetSum({r \in rows : r.type = type}, [r \in rows |-> r.cnt])

\* faulty variant: the type with the largest recent count
emerging_type_recent_only(df, recent_start) ==
    LET recent == {r \in df : r.year >= recent_start}
        early == {r \in df : r.year < recent_start}
        types == {r.type : r \in recent}
        best == {c \in types : \A d \in types : TypeSum(recent, d) <= TypeSum(recent, c)}
    IN IF recent = {} \/ early = {} THEN Null ELSE Val(FirstStr(best))

\* emerging_type(df, recent_start, "type", "cnt"): df has one row per year and
\* type.  The share ratio of a type is (r / recent_tot) / (e / early_tot); it is
\* NaN for a type missing on either side or when 0 / 0, infinite when e = 0 < r,
\* and those are dropped.  idxmax() is the first type in sorted order with the
\* largest ratio; ratios are compared by cross-multiplication (exactly equal
\* ratios are taken in index order).
emerging_type(df, recent_start) ==
    LET recent == {r \in df : r.year >= recent_start}
        early == {r \in df : r.year < recent_start}
        recent_tot == SetSum(recent, [r \in recent |-> r.cnt])
        share == {c \in {r.type : r \in recent} \cap {r.type : r \in early} :
                     recent_tot # 0 /\ TypeSum(early, c) # 0}
        best == {c \in share : \A d \in share :
                     TypeSum(recent, d) * TypeSum(early, c)
                         <= TypeSum(recent, c) * TypeSum(early, d)}
    IN IF recent = {} \/ early = {} THEN Null
       ELSE IF share = {} THEN Null
       ELSE Val(FirstStr(best))

\* ------------------------------------------------- calls of the math helpers
\* the calendar years the script is run in
CurrentYears == {2025, 2026}

\* type labels of evaluations and violations
s_CEI == <<"C","E","I">>
s_FCI == <<"F","C","I">>

\* the longest window of the series
MaxYears == 5
\* the largest count of one type in one year of a frame
MaxTypeCount == 2

\* the Series of yearly counts (index: the years with events, ascending) over
\* the years of a window that ends in the year before cy
Window(cy) == (cy - MaxYears)..(cy - 1)
SeriesOver(cy, counts) == UNION {[Y -> counts] : Y \in SUBSET Window(cy)}

\* slope_pct: counts that are zero, small, and large next to each other
SlopeArgs(cy) ==
    {[fn |-> "slope_pct", values |-> v] : v \in SeriesOver(cy, {0, 1, 2, 5001, 5002})}

\* spike_year: the counts 1, 6 and 20, and the series 1, 2, 3, ... over the
\* whole window
SpikeArgs(cy) ==
    {[fn |-> "spike_year", values |-> v] :
        v \in SeriesOver(cy, {1, 6, 20})
               \cup {[y \in Window(cy) |-> y - (cy - MaxYears) + 1]}}

\* emerging_type: the frames groupby([year, type]).agg(cnt=nunique).reset_index()
\* can give over the last three years of the window: one row per year and type
\* that has events
FrameCells(cy) == ((cy - 3)..(cy - 1)) \X {s_CEI, s_FCI}
FrameArgs(cy) ==
    {[fn |-> "emerging_type", recent_start |-> cy - 1,
      df |-> {[year |-> c[1], type |-> c[2], cnt |-> f[c]] :
                 c \in {d \in FrameCells(cy) : f[d] > 0}}] :
        f \in [FrameCells(cy) -> 0..MaxTypeCount]}

NoReturn == [fn |-> "none", raised |-> FALSE]

\* the matcher is not running
RCRAIdle ==
    /\ current_record = [id \in HandlerIds |-> "Y"]
    /\ account_matched_facilities = EmptyBag
    /\ search_terms = <<>>
    /\ pc = "idle"
    /\ idx = 0
    /\ results = <<>>
    /\ search_summary = [run |-> 0, rows |-> <<>>]
    /\ error = NoError
    /\ searched = <<>>
    /\ runs = 0
    /\ pre = EmptyBag
    /\ prev = NoPrev
    /\ columns = needed

MathInit ==
    /\ RCRAIdle
    /\ current_year = Min(CurrentYears)
    /\ arg \in SlopeArgs(current_year) \cup SpikeArgs(current_year)
                 \cup FrameArgs(current_year)
    /\ ret = NoReturn
    /\ ScriptIdle
    /\ JoinIdle

\* slope_pct(yr.index.to_series(), yr.cnt)
call_slope_pct ==
    /\ ret = NoReturn
    /\ arg.fn = "slope_pct"
    /\ ret' = [fn |-> "slope_pct", raised |-> FALSE,
               value |-> slope_pct(DOMAIN arg.values, arg.values)]
    /\ UNCHANGED <<rcra_vars, join_vars, current_year, arg, script_vars>>

\* spike_year(yr.index.to_series(), yr.cnt); on an empty Series std() is NaN,
\* z is empty and z.idxmax() raises ValueError
call_spike_year ==
    /\ ret = NoReturn
    /\ arg.fn = "spike_year"
    /\ IF DOMAIN arg.values = {}
       THEN ret' = [fn |-> "spike_year", raised |-> TRUE, value |-> None]
       ELSE \E r \in spike_year(DOMAIN arg.values, arg.values) :
               ret' = [fn |-> "spike_year", raised |-> FALSE, value |-> r]
    /\ UNCHANGED <<rcra_vars, join_vars, current_year, arg, script_vars>>

\* emerging_type(frame, current_year-1, "type", "cnt")
call_emerging_type ==
    /\ ret = NoReturn
    /\ arg.fn = "emerging_type"
    /\ ret' = [fn |-> "emerging_type", raised |-> FALSE,
               value |-> emerging_type(arg.df, arg.recent_start)]
    /\ UNCHANGED <<rcra_vars, join_vars, current_year, arg, script_vars>>

MathNext ==
    \/ call_slope_pct
    \/ call_spike_year
    \/ call_emerging_type

MathSpec == MathInit /\ [][MathNext]_vars

\* ------------------------------------- the compliance-summary script: SQL
\* (rcrainfo_account_violations, sections 0-2)
Digits == <<"0","1","2","3","4","5","6","7","8","9">>
IsDigits(s) == s # <<>> /\ \A i \in 1..Len(s) : \E d \in 1..10 : Digits[d] = s[i]
DigitVal(c) == (CHOOSE d \in 1..10 : Digits[d] = c) - 1

\* int(s) / CAST(s AS INT) for a string of digits
RECURSIVE ToInt(_)
ToInt(s) ==
    IF s = <<>> THEN 0
    ELSE 10 * ToInt(SubSeq(s, 1, Len(s) - 1)) + DigitVal(s[Len(s)])

\* f"{n}" for n >= 0
RECURSIVE ToStr(_)
ToStr(n) ==
    IF n < 10 THEN <<Digits[n + 1]>>
    ELSE ToStr(n \div 10) \o <<Digits[(n % 10) + 1]>>

\* a <= b for strings
StrLeq(a, b) == a = b \/ StrLess(a, b)

\* x BETWEEN lo AND hi on VARCHAR values: NULL (here: not true) for a NULL x
BETWEEN(x, lo, hi) == ~x.null /\ StrLeq(lo, x.s) /\ StrLeq(x.s, hi)

\* the calendar
IsLeap(y) == (y % 4 = 0 /\ y % 100 # 0) \/ y % 400 = 0
DaysInMonth(y, m) ==
    IF m = 2 THEN (IF IsLeap(y) THEN 29 ELSE 28)
    ELSE IF m \in {4, 6, 9, 11} THEN 30 ELSE 31

\* STRPTIME(s, '%Y%m%d') succeeds
IsDate(s) ==
    /\ Len(s) = 8
    /\ IsDigits(s)
    /\ ToInt(SubSeq(s, 5, 6)) \in 1..12
    /\ ToInt(SubSeq(s, 7, 8)) \in 1..DaysInMonth(ToInt(SubSeq(s, 1, 4)), ToInt(SubSeq(s, 5, 6)))

\* the number of the day of a date, counted from the first day of year 1
RECURSIVE DaysBeforeMonth(_, _)
DaysBeforeMonth(y, m) ==
    IF m = 1 THEN 0 ELSE DaysBeforeMonth(y, m - 1) + DaysInMonth(y, m - 1)
DayNumber(s) ==
    LET y == ToInt(SubSeq(s, 1, 4))
        m == ToInt(SubSeq(s, 5, 6))
        d == ToInt(SubSeq(s, 7, 8))
        p == y - 1
    IN 365 * p + (p \div 4) - (p \div 100) + (p \div 400) + DaysBeforeMonth(y, m) + d

\* DATE_DIFF('day', start, end): the days from start to end
DATE_DIFF(start, end) == DayNumber(end) - DayNumber(start)

\* CONCAT_WS('|', ...): the non-NULL values joined by '|'
CONCAT_WS(vals) == Join(NonNull(vals), <<"|">>)

\* COALESCE(af.contact_email_address, '(no email)')
s_no_email == <<"(","n","o"," ","e","m","a","i","l",")">>
contact_email_of(af) ==
    IF af.contact_email_address.null THEN s_no_email ELSE af.contact_email_address.s

\* win_begin and win_end, lines 40-43
window_year_min(cy, lookback) == cy - lookback
window_year_max(cy, lookback) == cy - 1
win_begin(cy, lookback) == ToStr(window_year_min(cy, lookback)) \o <<"0","1","0","1">>
win_end(cy, lookback) == ToStr(window_year_max(cy, lookback)) \o <<"1","2","3","1">>

\* FROM ce_reporting r JOIN account_matched_facilities af USING (handler_id)
\* WHERE af.account_id IS NOT NULL: pairs <<r, af>>
Joined(ce, amf) ==
    {p \in ce \X amf : p[1].handler_id = p[2].handler_id /\ ~p[2].account_id.null}

\* the enrichment columns of a row of the join
Enrichment(af) ==
    [account_id |-> af.account_id, account_name |-> af.account_name,
     contact_email |-> contact_email_of(af)]

\* faulty variant: the window also takes the current year
q_eval_rows_to_today(ce, amf, wb, we) ==
    {p \in Joined(ce, amf) :
        ~p[1].eval_start_date.null /\ StrLeq(wb, p[1].eval_start_date.s)}

\* the rows q_eval selects before DISTINCT ON
q_eval_rows(ce, amf, wb, we) ==
    {p \in Joined(ce, amf) : BETWEEN(p[1].eval_start_date, wb, we)}

\* the SELECT list of q_eval for one row of the join
eval_row(p) ==
    [eval_pk |-> CONCAT_WS(<<Val(p[1].handler_id), p[1].eval_identifier,
                             p[1].eval_start_date>>),
     handler_id |-> p[1].handler_id,
     eval_start_date |-> p[1].eval_start_date.s,
     eval_date_i |-> ToInt(p[1].eval_start_date.s),
     eval_year |-> ToInt(SubSeq(p[1].eval_start_date.s, 1, 4)),
     eval_type_desc |-> p[1].eval_type_desc,
     found_violation |-> p[1].found_violation]
    @@ Enrichment(p[2])

\* the rows q_viol selects before DISTINCT ON
q_viol_rows(ce, amf, wb, we) ==
    {p \in Joined(ce, amf) : BETWEEN(p[1].determined_date, wb, we)}

\* CASE WHEN actual_rtc_date IS NOT NULL AND determined_date IS NOT NULL THEN
\* DATE_DIFF('day', STRPTIME(actual_rtc_date), STRPTIME(determined_date)) END
days_to_resolve(r) ==
    IF ~r.actual_rtc_date.null /\ ~r.determined_date.null
    THEN Some(DATE_DIFF(r.actual_rtc_date.s, r.determined_date.s))
    ELSE None

\* the SELECT list of q_viol
viol_row(p) ==
    [viol_pk |-> CONCAT_WS(<<Val(p[1].handler_id), p[1].viol_seq>>),
     handler_id |-> p[1].handler_id,
     determined_date |-> p[1].determined_date.s,
     viol_date_i |-> ToInt(p[1].determined_date.s),
     viol_year |-> ToInt(SubSeq(p[1].determined_date.s, 1, 4)),
     viol_short_desc |-> p[1].viol_short_desc,
     days_to_resolve |-> days_to_resolve(p[1])]
    @@ Enrichment(p[2])

\* the rows q_enf selects before DISTINCT ON
q_enf_rows(ce, amf, wb, we) ==
    {p \in Joined(ce, amf) : BETWEEN(p[1].enf_action_date, wb, we)}

\* CAST(NULLIF(final_amount, '') AS DOUBLE): whole amounts
penalty_amt(r) ==
    IF r.final_amount.null \/ r.final_amount.s = <<>> THEN None
    ELSE Some(ToInt(r.final_amount.s))

\* the SELECT list of q_enf
enf_row(p) ==
    [enf_pk |-> CONCAT_WS(<<Val(p[1].handler_id), p[1].enf_identifier,
                            p[1].enf_action_date>>),
     handler_id |-> p[1].handler_id,
     enf_action_date |-> p[1].enf_action_date.s,
     enf_date_i |-> ToInt(p[1].enf_action_date.s),
     enf_year |-> ToInt(SubSeq(p[1].enf_action_date.s, 1, 4)),
     enf_type_desc |-> p[1].enf_type_desc,
     penalty_amt |-> penalty_amt(p[1])]
    @@ Enrichment(p[2])

\* q_facilities_full: SELECT DISTINCT handler and enrichment, no window
q_facilities_full(ce, amf) ==
    {[handler_id |-> p[1].handler_id] @@ Enrichment(p[2]) : p \in Joined(ce, amf)}

\* SELECT DISTINCT ON (pk): the tables that keep one of the rows of every key;
\* which one is not specified
DistinctOn(rows, pk) ==
    LET keys == {r[pk] : r \in rows}
    IN {{f[k] : k \in keys} : f \in {g \in [keys -> rows] : \A k \in keys : g[k][pk] = k}}

\* a statement of the queries raises: CAST(... AS INT) of a value that is not a
\* number, STRPTIME of a value that is not a date
q_raises(ce, amf, wb, we) ==
    \/ \E p \in q_eval_rows(ce, amf, wb, we) : ~IsDigits(p[1].eval_start_date.s)
    \/ \E p \in q_viol_rows(ce, amf, wb, we) :
          \/ ~IsDigits(p[1].determined_date.s)
          \/ ~p[1].actual_rtc_date.null /\ ~IsDate(p[1].actual_rtc_date.s)
          \/ ~p[1].actual_rtc_date.null /\ ~IsDate(p[1].determined_date.s)
    \/ \E p \in q_enf_rows(ce, amf, wb, we) :
          \/ ~IsDigits(p[1].enf_action_date.s)
          \/ ~p[1].final_amount.null /\ p[1].final_amount.s # <<>>
                /\ ~IsDigits(p[1].final_amount.s)

\* ---------------------------------- the compliance-summary script: metrics
\* (rcrainfo_account_violations, sections 4-6)
\* int(x) of a / b (b > 0): the quotient truncated toward zero
TruncDiv(a, b) == IF a >= 0 THEN a \div b ELSE -((-a) \div b)

NoSlope == [none |-> TRUE, v |-> Hundredths(0, FALSE)]

\* T.query("contact_email == @email and account_id == @acc"); email is a string
\* or None, and no cell equals None
Slice(T, email, acc) ==
    {r \in T : ~email.null /\ r.contact_email = email.s /\ r.account_id = acc}

\* the rows of S whose column col is not null
WithLabel(S, col) == {r \in S : ~r[col].null}

\* groupby(col)[pk].nunique() for one group (rows with a null key are dropped)
GroupCount(S, col, label, pk) == Cardinality({r[pk] : r \in {x \in S : x[col] = Val(label)}})

\* groupby(year_col).agg(cnt=(pk, 'nunique')): the Series year -> count
YearCounts(S, year_col, pk) ==
    [y \in {r[year_col] : r \in S} |-> Cardinality({r[pk] : r \in {x \in S : x[year_col] = y}})]

\* groupby([year_col, type_col]).agg(cnt=(pk, 'nunique')).reset_index(names=['year','type'])
TypeFrame(S, year_col, type_col, pk) ==
    {[year |-> c[1], type |-> c[2],
      cnt |-> Cardinality({r[pk] : r \in {x \in S : x[year_col] = c[1] /\ x[type_col] = Val(c[2])}})] :
        c \in {<<r[year_col], r[type_col].s>> : r \in WithLabel(S, type_col)}}

\* S.loc[S[year_col] == spy, type_col].mode(): the most frequent labels (nulls
\* are not counted)
Mode(S, year_col, spy, type_col) ==
    LET rows == {r \in WithLabel(S, type_col) : r[year_col] = spy}
        n(label) == Cardinality({r \in rows : r[type_col].s = label})
    IN {r[type_col].s : r \in {x \in rows : \A y \in rows : n(y[type_col].s) <= n(x[type_col].s)}}

\* the eval types of tmp with the largest hit rate 100 * hits / evals
MaxHitTypes(e_win) ==
    LET types == {r.eval_type_desc.s : r \in WithLabel(e_win, "eval_type_desc")}
        evals(c) == GroupCount(e_win, "eval_type_desc", c, "eval_pk")
        hits(c) == Cardinality({r \in e_win : r.eval_type_desc = Val(c)
                                              /\ r.found_violation = Val(<<"Y">>)})
    IN {c \in types : \A d \in types : hits(d) * evals(c) <= hits(c) * evals(d)}

\* the spike years spike_year can return for the yearly counts of a slice
SpikeYears(S, year_col, pk) ==
    IF S = {} THEN {None}
    ELSE spike_year(DOMAIN YearCounts(S, year_col, pk), YearCounts(S, year_col, pk))

\* build_metrics raises: tmp.hit_rate.idxmax() on an empty tmp (every eval type
\* of the slice is null) raises ValueError; .mode().iat[0] on an empty mode
\* (every type of the spike year is null) raises IndexError
build_metrics_raises(E, V, F, email, acc, spy_e, spy_v) ==
    LET e_win == Slice(E, email, acc)
        v_win == Slice(V, email, acc)
    IN \/ e_win # {} /\ WithLabel(e_win, "eval_type_desc") = {}
       \/ e_win # {} /\ ~spy_e.none
             /\ Mode(e_win, "eval_year", spy_e.v, "eval_type_desc") = {}
       \/ v_win # {} /\ ~spy_v.none
             /\ Mode(v_win, "viol_year", spy_v.v, "viol_short_desc") = {}

\* d = v_win.days_to_resolve.dropna(); int(d.mean()) if not d.empty else None
avg_days_to_resolve(v_win) ==
    LET d == {r \in v_win : ~r.days_to_resolve.none}
    IN IF d = {} THEN None
       ELSE Some(TruncDiv(SetSum(d, [r \in v_win |-> r.days_to_resolve.v]),
                          Cardinality(d)))

\* the dict build_metrics returns when it does not raise; spy_e and spy_v are
\* the results of its two calls of spike_year.  The identity columns tier_2025,
\* parent_account_id, parent_account and the three owners are copied like
\* account_name and are left out.
build_metrics(E, V, F, FAC, cy, email, acc, spy_e, spy_v) ==
    LET e_win == Slice(E, email, acc)
        v_win == Slice(V, email, acc)
        f_win == Slice(F, email, acc)
        first == CHOOSE r \in (IF e_win # {} THEN e_win
                               ELSE IF v_win # {} THEN v_win ELSE f_win) : TRUE
        evaluations == Cardinality({r.eval_pk : r \in e_win})
        with_viol == Cardinality({r.eval_pk :
                        r \in {x \in e_win : x.found_violation = Val(<<"Y">>)}})
        top == FirstStr(MaxHitTypes(e_win))
        paid == {r \in f_win : ~r.penalty_amt.none}
        largest == CHOOSE r \in paid : \A x \in paid : x.penalty_amt.v <= r.penalty_amt.v
        yr_e == YearCounts(e_win, "eval_year", "eval_pk")
        yr_v == YearCounts(v_win, "viol_year", "viol_pk")
    IN IF e_win = {} /\ v_win = {} /\ f_win = {} THEN <<>>
       ELSE
       [contact_email |-> first.contact_email,
        account_id |-> first.account_id,
        account_name |-> first.account_name,
        facilities |-> Cardinality({r.handler_id : r \in Slice(FAC, email, acc)}),
        evaluations_5y |-> evaluations,
        evals_with_viol_5y |-> with_viol,
        violations_5y |-> Cardinality({r.viol_pk : r \in v_win}),
        enforcement_actions_5y |-> Cardinality({r.enf_pk : r \in f_win}),
        total_penalties_5y |-> SetSum(paid, [r \in f_win |-> r.penalty_amt.v]),
        open_violations |-> Cardinality({r \in v_win : r.days_to_resolve.none}),
        last_eval_date |->
            IF e_win = {} THEN None ELSE Some(Max({r.eval_date_i : r \in e_win})),
        last_violation_date |->
            IF v_win = {} THEN None ELSE Some(Max({r.viol_date_i : r \in v_win})),
        last_penalty_date |->
            IF f_win = {} THEN None ELSE Some(Max({r.enf_date_i : r \in f_win})),
        eval_hit_rate |->
            IF evaluations # 0 THEN RoundHalfEven(1000 * with_viol, evaluations) ELSE 0,
        eval_type_max_hit |-> IF evaluations # 0 THEN Val(top) ELSE Null,
        eval_type_max_hit_rate |->
            IF evaluations # 0
            THEN Some(RoundHalfEven(
                     1000 * Cardinality({r \in e_win : r.eval_type_desc = Val(top)
                                            /\ r.found_violation = Val(<<"Y">>)}),
                     GroupCount(e_win, "eval_type_desc", top, "eval_pk")))
            ELSE None,
        eval_trend_slope |->
            IF evaluations # 0 THEN [none |-> FALSE, v |-> slope_pct(DOMAIN yr_e, yr_e)]
            ELSE NoSlope,
        eval_spike_year |-> IF evaluations # 0 THEN spy_e ELSE None,
        eval_spike_type |->
            IF evaluations # 0 /\ ~spy_e.none
            THEN Val(FirstStr(Mode(e_win, "eval_year", spy_e.v, "eval_type_desc")))
            ELSE Null,
        eval_type_to_watch |->
            IF evaluations # 0
            THEN emerging_type(TypeFrame(e_win, "eval_year", "eval_type_desc", "eval_pk"),
                               cy - 1)
            ELSE Null,
        viol_trend_slope |->
            IF v_win # {} THEN [none |-> FALSE, v |-> slope_pct(DOMAIN yr_v, yr_v)]
            ELSE NoSlope,
        spike_year |-> IF v_win # {} THEN spy_v ELSE None,
        spike_violation_type |->
            IF v_win # {} /\ ~spy_v.none
            THEN Val(FirstStr(Mode(v_win, "viol_year", spy_v.v, "viol_short_desc")))
            ELSE Null,
        type_to_watch |->
            IF v_win # {}
            THEN emerging_type(TypeFrame(v_win, "viol_year", "viol_short_desc", "viol_pk"),
                               cy - 1)
            ELSE Null,
        enf_type_largest_penalty |-> IF paid # {} THEN largest.enf_type_desc ELSE Null,
        largest_penalty_amt |-> IF paid # {} THEN largest.penalty_amt.v ELSE 0,
        avg_days_to_resolve |-> avg_days_to_resolve(v_win)]

\* {k: v for k, v in row.items() if k != "contact_email"}
drop_contact_email(row) == [k \in DOMAIN row \ {"contact_email"} |-> row[k]]

\* ------------------------------------ the compliance-summary script: the run
\* (rcrainfo_account_violations, sections 0, 2, 5 and 6)
\* the largest YEARS_LOOKBACK of the environment
MaxLookback == 2

s_H1 == <<"H","1">>
s_H2 == <<"H","2">>
s_c1 == <<"c","1","@","x",".","i","o">>
s_Y == <<"Y">>
s_N == <<"N">>

\* rows of account_matched_facilities as the join script writes them: facility
\* H1 is matched to the accounts A1 and A2, facility H2 to A1 and to no account
AmfPool ==
    {[handler_id |-> s_H1, account_id |-> Val(<<"A","1">>), account_name |-> <<"A","c","m","e">>,
      contact_email_address |-> Val(s_c1)],
     [handler_id |-> s_H2, account_id |-> Val(<<"A","1">>), account_name |-> <<"A","c","m","e">>,
      contact_email_address |-> Null],
     [handler_id |-> s_H1, account_id |-> Val(<<"A","2">>), account_name |-> <<"B","o","l","t">>,
      contact_email_address |-> Val(s_c1)],
     [handler_id |-> s_H2, account_id |-> Null, account_name |-> <<>>,
      contact_email_address |-> Null]}

\* the columns of an evaluation, a violation and an enforcement action in a row
\* of ce_reporting
Ev(id, start, type, found) ==
    [eval_identifier |-> id, eval_start_date |-> start, eval_type_desc |-> type,
     found_violation |-> found]
Vi(seq, determined, rtc, desc) ==
    [viol_seq |-> seq, determined_date |-> determined, actual_rtc_date |-> rtc,
     viol_short_desc |-> desc]
En(id, action, type, amount) ==
    [enf_identifier |-> id, enf_action_date |-> action, enf_type_desc |-> type,
     final_amount |-> amount]
NoVi == Vi(Null, Null, Null, Null)
NoEn == En(Null, Null, Null, Null)
CeRow(h, ev, vi, en) == [handler_id |-> h] @@ ev @@ vi @@ en

\* rows of ce_reporting: one row per evaluation, violation and enforcement action
CePool ==
    {\* evaluation E1 of H1 in 2024 with a violation resolved after ten days and a penalty
     CeRow(s_H1, Ev(Val(<<"E","1">>), Val(<<"2","0","2","4","0","3","1","0">>), Val(s_CEI), Val(s_Y)),
           Vi(Val(<<"V","1">>), Val(<<"2","0","2","4","0","3","1","0">>),
              Val(<<"2","0","2","4","0","3","2","0">>), Val(<<"L","a","b","e","l">>)),
           En(Val(<<"F","1">>), Val(<<"2","0","2","4","0","5","0","1">>), Val(<<"O","r","d","e","r">>),
              Val(<<"1","0","0","0">>))),
     \* the same evaluation with a second violation, resolved after seven days
     CeRow(s_H1, Ev(Val(<<"E","1">>), Val(<<"2","0","2","4","0","3","1","0">>), Val(s_CEI), Val(s_Y)),
           Vi(Val(<<"V","2">>), Val(<<"2","0","2","4","0","3","1","0">>),
              Val(<<"2","0","2","4","0","3","1","7">>), Val(<<"L","a","b","e","l">>)),
           NoEn),
     \* an evaluation of H1 in 2023 without a type label
     CeRow(s_H1, Ev(Val(<<"E","2">>), Val(<<"2","0","2","3","0","1","1","5">>), Null, Val(s_N)),
           NoVi, NoEn),
     \* an evaluation of H2 in 2025 with an open violation
     CeRow(s_H2, Ev(Val(<<"E","3">>), Val(<<"2","0","2","5","0","6","0","1">>), Val(s_FCI), Val(s_Y)),
           Vi(Val(<<"V","3">>), Val(<<"2","0","2","5","0","6","0","1">>), Null, Null),
           NoEn),
     \* an evaluation of H2 in 2024 with an enforcement action without a penalty
     CeRow(s_H2, Ev(Val(<<"E","4">>), Val(<<"2","0","2","4","0","9","0","5">>), Val(s_CEI), Val(s_N)),
           NoVi,
           En(Val(<<"F","2">>), Val(<<"2","0","2","4","0","9","1","0">>), Null, Val(<<>>)))}

\* the state after section 0: the environment and the clock are read, the
\* database holds the two tables, ce_reporting with rows of ce_pool
ViolationsInitOver(ce_pool) ==
    /\ current_record = [id \in HandlerIds |-> "Y"]
    /\ account_matched_facilities \in {SetToBag(S) : S \in SUBSET AmfPool}
    /\ search_terms = <<>>
    /\ pc = "idle"
    /\ idx = 0
    /\ results = <<>>
    /\ search_summary = [run |-> 0, rows |-> <<>>]
    /\ error = NoError
    /\ searched = <<>>
    /\ runs = 0
    /\ pre = EmptyBag
    /\ prev = NoPrev
    /\ columns = needed
    /\ current_year \in CurrentYears
    /\ arg = [fn |-> "none"]
    /\ ret = [fn |-> "none", raised |-> FALSE]
    /\ YEARS_LOOKBACK \in 0..MaxLookback
    /\ ce_reporting \in SUBSET ce_pool
    /\ EVALS_WIN = {}
    /\ VIOLATIONS_WIN = {}
    /\ ENFS_WIN = {}
    /\ FACILITIES = {}
    /\ todo = {}
    /\ contact_rows = <<>>
    /\ account_rows = <<>>
    /\ contact_df = <<>>
    /\ account_df = <<>>
    /\ script_pc = "config"
    /\ raised = ""
    /\ JoinIdle

\* every date of ce_reporting is a date
ViolationsInit == ViolationsInitOver(CePool)

amf == BagToSet(account_matched_facilities)

\* EVALS_WIN[["contact_email","account_id"]].drop_duplicates()
contact_keys(E) == {<<r.contact_email, r.account_id>> : r \in E}
\* EVALS_WIN.account_id.unique()
account_keys(E) == {<<r.account_id>> : r \in E}

\* section 2: the four queries; a statement that raises ends the script
fetch ==
    /\ script_pc = "config"
    /\ LET wb == win_begin(current_year, YEARS_LOOKBACK)
           we == win_end(current_year, YEARS_LOOKBACK)
       IN IF q_raises(ce_reporting, amf, wb, we)
          THEN /\ script_pc' = "failed"
               /\ raised' = "fetch"
               /\ UNCHANGED <<EVALS_WIN, VIOLATIONS_WIN, ENFS_WIN, FACILITIES, todo>>
          ELSE /\ EVALS_WIN' \in
                     DistinctOn({eval_row(p) : p \in q_eval_rows(ce_reporting, amf, wb, we)},
                                "eval_pk")
               /\ VIOLATIONS_WIN' \in
                     DistinctOn({viol_row(p) : p \in q_viol_rows(ce_reporting, amf, wb, we)},
                                "viol_pk")
               /\ ENFS_WIN' \in
                     DistinctOn({enf_row(p) : p \in q_enf_rows(ce_reporting, amf, wb, we)},
                                "enf_pk")
               /\ FACILITIES' = q_facilities_full(ce_reporting, amf)
               /\ todo' = contact_keys(EVALS_WIN')
               /\ script_pc' = "contacts"
               /\ UNCHANGED raised
    /\ UNCHANGED <<rcra_vars, join_vars, current_year, arg, ret, YEARS_LOOKBACK, ce_reporting,
                   contact_rows, account_rows, contact_df, account_df>>

\* one step of the comprehension of contact_rows: build_metrics(email, acc)
contact_row ==
    /\ script_pc = "contacts"
    /\ todo # {}
    /\ LET k == CHOOSE x \in todo : TRUE
           e_win == Slice(EVALS_WIN, Val(k[1]), k[2])
           v_win == Slice(VIOLATIONS_WIN, Val(k[1]), k[2])
       IN \E spy_e \in SpikeYears(e_win, "eval_year", "eval_pk"),
             spy_v \in SpikeYears(v_win, "viol_year", "viol_pk") :
            IF build_metrics_raises(EVALS_WIN, VIOLATIONS_WIN, ENFS_WIN,
                                    Val(k[1]), k[2], spy_e, spy_v)
            THEN /\ script_pc' = "failed"
                 /\ raised' = "build_metrics"
                 /\ UNCHANGED <<todo, contact_rows>>
            ELSE /\ contact_rows' =
                       Append(contact_rows,
                              build_metrics(EVALS_WIN, VIOLATIONS_WIN, ENFS_WIN, FACILITIES,
                                            current_year, Val(k[1]), k[2], spy_e, spy_v))
                 /\ todo' = todo \ {k}
                 /\ UNCHANGED <<script_pc, raised>>
    /\ UNCHANGED <<rcra_vars, join_vars, current_year, arg, ret, YEARS_LOOKBACK, ce_reporting,
                   EVALS_WIN, VIOLATIONS_WIN, ENFS_WIN, FACILITIES,
                   account_rows, contact_df, account_df>>

\* contact_df = pd.DataFrame(contact_rows): one row per dict of the list
contact_frame ==
    /\ script_pc = "contacts"
    /\ todo = {}
    /\ contact_df' = contact_rows
    /\ todo' = account_keys(EVALS_WIN)
    /\ script_pc' = "accounts"
    /\ UNCHANGED <<rcra_vars, join_vars, current_year, arg, ret, YEARS_LOOKBACK, ce_reporting,
                   EVALS_WIN, VIOLATIONS_WIN, ENFS_WIN, FACILITIES,
                   contact_rows, account_rows, account_df, raised>>

\* one step of the comprehension of account_rows: build_metrics(None, acc)
\* without its contact_email
account_row ==
    /\ script_pc = "accounts"
    /\ todo # {}
    /\ LET k == CHOOSE x \in todo : TRUE
           e_win == Slice(EVALS_WIN, Null, k[1])
           v_win == Slice(VIOLATIONS_WIN, Null, k[1])
       IN \E spy_e \in SpikeYears(e_win, "eval_year", "eval_pk"),
             spy_v \in SpikeYears(v_win, "viol_year", "viol_pk") :
            IF build_metrics_raises(EVALS_WIN, VIOLATIONS_WIN, ENFS_WIN,
                                    Null, k[1], spy_e, spy_v)
            THEN /\ script_pc' = "failed"
                 /\ raised' = "build_metrics"
                 /\ UNCHANGED <<todo, account_rows>>
            ELSE /\ account_rows' =
                       Append(account_rows,
                              drop_contact_email(
                                  build_metrics(EVALS_WIN, VIOLATIONS_WIN, ENFS_WIN, FACILITIES,
                                                current_year, Null, k[1], spy_e, spy_v)))
                 /\ todo' = todo \ {k}
                 /\ UNCHANGED <<script_pc, raised>>
    /\ UNCHANGED <<rcra_vars, join_vars, current_year, arg, ret, YEARS_LOOKBACK, ce_reporting,
                   EVALS_WIN, VIOLATIONS_WIN, ENFS_WIN, FACILITIES,
                   contact_rows, contact_df, account_df>>

\* account_df = pd.DataFrame(account_rows) and section 6: the two CSV files
\* hold the rows of contact_df and account_df
write_csv ==
    /\ script_pc = "accounts"
    /\ todo = {}
    /\ account_df' = account_rows
    /\ script_pc' = "done"
    /\ UNCHANGED <<rcra_vars, join_vars, current_year, arg, ret, YEARS_LOOKBACK, ce_reporting,
                   EVALS_WIN, VIOLATIONS_WIN, ENFS_WIN, FACILITIES, todo,
                   contact_rows, account_rows, contact_df, raised>>

ViolationsNext ==
    \/ fetch
    \/ contact_row
    \/ contact_frame
    \/ account_row
    \/ write_csv

ViolationsSpec == ViolationsInit /\ [][ViolationsNext]_vars

\* --------------------------- the script on a table with unparseable dates
\* rows of ce_reporting whose evaluation start date is not a YYYYMMDD date:
\* a day that does not exist, and a date written with dashes
UnparseablePool ==
    {CeRow(s_H1, Ev(Val(<<"E","5">>), Val(<<"2","0","2","4","0","2","3","0">>), Val(s_CEI), Val(s_N)),
           NoVi, NoEn),
     CeRow(s_H1, Ev(Val(<<"E","6">>), Val(<<"2","0","2","4","-","0","3","-","1","0">>), Val(s_CEI),
                    Val(s_N)),
           NoVi, NoEn)}

UnparseableInit ==
    ViolationsInitOver(UnparseablePool \cup {r \in CePool : r.handler_id = s_H1})

UnparseableSpec == UnparseableInit /\ [][ViolationsNext]_vars

\* ------------------------------------------- the account/domain join script
\* (rcrainfo_salesforce_acount_match)
\* the largest number of runs of the join script
MaxJoins == 2

\* str.replace(old, new)
RECURSIVE Replace(_, _, _)
Replace(s, old, new) ==
    IF Len(s) < Len(old) THEN s
    ELSE IF SubSeq(s, 1, Len(old)) = old
         THEN new \o Replace(SubSeq(s, Len(old) + 1, Len(s)), old, new)
         ELSE <<Head(s)>> \o Replace(Tail(s), old, new)

\* s.split("@", 1)[-1]: the text after the first '@'
AfterFirstAt(s) ==
    LET i == CHOOSE k \in 1..Len(s) : s[k] = "@" /\ \A j \in 1..(k - 1) : s[j] # "@"
    IN SubSeq(s, i + 1, Len(s))

\* tldextract.extract(host).top_domain_under_public_suffix for the public
\* suffixes com and io: the label before the suffix and the suffix, '' for a
\* host without a known suffix or without a label before it
PublicSuffixes == {<<"c","o","m">>, <<"i","o">>}
top_domain_under_public_suffix(host) ==
    LET labels == Split(host, ".")
        n == Len(labels)
    IN IF n >= 2 /\ labels[n] \in PublicSuffixes /\ labels[n - 1] # <<>>
       THEN labels[n - 1] \o <<".">> \o labels[n]
       ELSE <<>>

\* BAD_DOMAINS: the generic domains that are dropped
bad_domains == {<<"g","m","a","i","l",".","c","o","m">>}

\* one piece of a cell, lines 69-82
RECURSIVE clean_pieces(_)
clean_pieces(pieces) ==
    IF pieces = <<>> THEN <<>>
    ELSE LET piece == Strip(Head(pieces))
             host == IF "@" \in Range(piece) THEN AfterFirstAt(piece) ELSE piece
             bare == Replace(Replace(host, <<"h","t","t","p","s",":","/","/">>, <<>>),
                             <<"h","t","t","p",":","/","/">>, <<>>)
             rd == top_domain_under_public_suffix(
                       Split(Split(bare, "/")[1], "?")[1])
         IN IF piece = <<>> \/ rd = <<>> THEN clean_pieces(Tail(pieces))
            ELSE <<Lower(rd)>> \o clean_pieces(Tail(pieces))

\* clean_domains(cell): the registrable domains named in a cell
clean_domains(cell) ==
    clean_pieces(Split(Replace(Replace(Replace(cell, <<";">>, <<",">>),
                                       <<"|">>, <<",">>),
                               <<" ">>, <<",">>), ","))

\* domain_lists of one file row: the domains of its domain columns, without
\* the bad ones
domain_list(row) ==
    LET all == clean_domains(row.Website) \o clean_domains(row.Email)
    IN {all[i] : i \in 1..Len(all)} \ bad_domains

\* extract_email_domain, lines 107-110
email_domain_of(email) ==
    IF email = <<>> \/ "@" \notin Range(email) THEN <<>>
    ELSE Strip(Lower(AfterFirstAt(email)))

\* .explode("domain") of one file row: one row per domain of its list; a row
\* with an empty list keeps one row with a missing domain (NaN != '' is true)
explode(row) ==
    IF domain_list(row) = {}
    THEN {[account_id |-> row.account_id, account_name |-> row.account_name,
           email |-> row.Email, domain |-> Null]}
    ELSE {[account_id |-> row.account_id, account_name |-> row.account_name,
           email |-> row.Email, domain |-> Val(d)] : d \in domain_list(row)}

\* df_domains
df_domains(file) == UNION {explode(file[i]) : i \in 1..Len(file)}

\* df_grouped, the content of account_domain_rows: one row per account and
\* domain with the number of distinct e-mail addresses of that domain
account_domain_rows(file) ==
    {[account_id |-> e.account_id, account_name |-> e.account_name,
      domain |-> e.domain,
      distinct_email_count |->
          Cardinality({x.email : x \in {y \in df_domains(file) :
                           /\ y.account_id = e.account_id
                           /\ y.account_name = e.account_name
                           /\ y.domain = e.domain
                           /\ ~y.domain.null
                           /\ y.email # <<>>
                           /\ email_domain_of(y.email) = y.domain.s}})] :
        e \in df_domains(file)}

\* split_part(s, '@', 2): the second piece of s split at '@', '' when there is
\* none
split_part_2(s) == IF Len(Split(s, "@")) >= 2 THEN Split(s, "@")[2] ELSE <<>>

\* the SELECT of join_sql: account_domain_rows joined with the current
\* hd_handler rows whose contact e-mail domain is the account's domain
join_rows(file, cr) ==
    {[account_id |-> p[1].account_id, account_name |-> p[1].account_name,
      domain |-> p[1].domain.s, distinct_email_count |-> p[1].distinct_email_count,
      handler_id |-> p[2].handler_id, handler_name |-> p[2].handler_name,
      contact_email_address |-> p[2].contact_email_address,
      contact_email_domain |-> split_part_2(p[2].contact_email_address.s)] :
        p \in {q \in account_domain_rows(file) \X {Handler(id) : id \in HandlerIds} :
                 /\ ~q[1].domain.null
                 /\ ~q[2].contact_email_address.null
                 /\ Lower(q[1].domain.s)
                       = Lower(split_part_2(q[2].contact_email_address.s))
                 /\ cr[q[2].handler_id] = "Y"}}

\* rows of the account file: account columns, one domain column and the
\* e-mail column (pd.read_csv(..., dtype=str).fillna(""))
s_www_acme == <<"h","t","t","p","s",":","/","/","w","w","w",".","A","C","M","E",".","c","o","m","/","a","b","o","u","t">>
s_gmail == <<"g","m","a","i","l",".","c","o","m">>
SrcRows ==
    {[account_id |-> "A1", account_name |-> s_AcmeCorp, Website |-> s_acme_com,
      Email |-> s_jane],
     [account_id |-> "A2", account_name |-> s_Nil, Website |-> s_www_acme,
      Email |-> <<>>],
     [account_id |-> "A3", account_name |-> s_Void, Website |-> s_gmail \o <<";"," ">> \o s_na,
      Email |-> <<>>]}

\* the account files a run may read: 1..MaxBatch rows
SrcFiles == UNION {[1..n -> SrcRows] : n \in 1..MaxBatch}

\* the database before the first run of the join script
JoinInit ==
    /\ current_record \in [HandlerIds -> {"Y", "N"}]
    /\ account_matched_facilities = EmptyBag
    /\ search_terms = <<>>
    /\ pc = "idle"
    /\ idx = 0
    /\ results = <<>>
    /\ search_summary = [run |-> 0, rows |-> <<>>]
    /\ error = NoError
    /\ searched = <<>>
    /\ runs = 0
    /\ pre = EmptyBag
    /\ prev = NoPrev
    /\ columns = needed
    /\ SummaryIdle

\* main(): the CSV files are written and account_matched_facilities is created
\* anew from the join (CREATE OR REPLACE TABLE ... AS SELECT)
join_main(file) ==
    /\ joins < MaxJoins
    /\ joins' = joins + 1
    /\ SRC' = file
    /\ pre' = account_matched_facilities
    /\ account_matched_facilities' = SetToBag(join_rows(file, current_record))
    /\ UNCHANGED <<current_record, search_terms, pc, idx, results, search_summary, error,
                   searched, runs, prev, columns, current_year, arg, ret, script_vars>>

JoinNext == \E file \in SrcFiles : join_main(file)

JoinSpec == JoinInit /\ [][JoinNext]_vars

\* ------------------------------------------- the search-term preprocessing
\* (rcrainfo_account_profile, lines 58-164)
\* s without the prefix p, when it starts with p
StripPrefix(s, p) ==
    IF Len(s) >= Len(p) /\ SubSeq(s, 1, Len(p)) = p THEN SubSeq(s, Len(p) + 1, Len(s)) ELSE s

\* str.rstrip('/')
RECURSIVE RStripSlash(_)
RStripSlash(s) ==
    IF s # <<>> /\ s[Len(s)] = "/" THEN RStripSlash(SubSeq(s, 1, Len(s) - 1)) ELSE s

\* clean_domain: re.sub('^https?://', ''), re.sub('^www\.', ''),
\* split('?')[0].rstrip('/').strip()
clean_domain(domain) ==
    LET a == IF StripPrefix(domain, <<"h","t","t","p","s",":","/","/">>) # domain
             THEN StripPrefix(domain, <<"h","t","t","p","s",":","/","/">>)
             ELSE StripPrefix(domain, <<"h","t","t","p",":","/","/">>)
        b == StripPrefix(a, <<"w","w","w",".">>)
    IN Strip(RStripSlash(Split(b, "?")[1]))

exclude_patterns ==
    <<<<"y","e","l","p",".","c","o","m">>,
      <<"c","m">>,
      <<".","p","d","f">>,
      <<".","d","o","c">>,
      <<".","t","x","t">>,
      <<".","h","t","m","l">>,
      <<"l","i","n","k","e","d","i","n",".","c","o","m">>,
      <<"f","a","c","e","b","o","o","k",".","c","o","m">>,
      <<"t","w","i","t","t","e","r",".","c","o","m">>,
      <<"i","n","s","t","a","g","r","a","m",".","c","o","m">>,
      <<"i","n","d","e","e","d",".","c","o","m">>,
      <<"g","l","a","s","s","d","o","o","r",".","c","o","m">>,
      <<"m","o","n","s","t","e","r",".","c","o","m">>,
      <<"c","a","r","e","e","r","b","u","i","l","d","e","r",".","c","o","m">>,
      <<"g","m","a","i","l",".","c","o","m">>,
      <<"h","o","t","m","a","i","l",".","c","o","m">>,
      <<"y","a","h","o","o",".","c","o","m">>,
      <<"o","u","t","l","o","o","k",".","c","o","m">>,
      <<"a","o","l",".","c","o","m">>,
      <<"i","c","l","o","u","d",".","c","o","m">>,
      <<"m","e",".","c","o","m">>,
      <<"m","s","n",".","c","o","m">>,
      <<"l","i","v","e",".","c","o","m">>,
      <<"m","a","i","l",".","c","o","m">>,
      <<"p","r","o","t","o","n","m","a","i","l",".","c","o","m">>,
      <<"y","a","n","d","e","x",".","c","o","m">>,
      <<"z","o","h","o",".","c","o","m">>>>

\* re.search('\d+$', domain): the text ends in a digit
EndsInDigits(domain) == domain # <<>> /\ domain[Len(domain)] \in DigitChars

\* re.match('^[a-z0-9][a-z0-9-.]+(\.)[a-z]{2,}$', domain)
DomainShape(domain) ==
    LET n == Len(domain)
        alnum(c) == c \in Range(LowerChars) \cup DigitChars
    IN \E k \in 3..(n - 2) :
          /\ alnum(domain[1])
          /\ \A i \in 2..(k - 1) : alnum(domain[i]) \/ domain[i] \in {"-", "."}
          /\ domain[k] = "."
          /\ \A i \in (k + 1)..n : domain[i] \in Range(LowerChars)

\* is_valid_domain
is_valid_domain(domain) ==
    LET d == Strip(Lower(domain))
    IN /\ \A i \in 1..Len(exclude_patterns) : ~Contains(d, exclude_patterns[i])
       /\ ~EndsInDigits(d)
       /\ DomainShape(d)

\* extract_email_domain: email.split('@')[1].lower() if '@' in email
extract_email_domain(email) ==
    IF "@" \in Range(email) THEN Lower(Split(email, "@")[2]) ELSE Lower(email)


\* re.sub(pat, repl, s) for the two-character patterns 's\b and s'\b: after
\* the s of 's a word boundary is the end of the text or a character that is
\* not a word character; after the ' of s' it is a word character
RECURSIVE re_sub_boundary(_, _, _, _)
re_sub_boundary(s, pat, repl, word_follows) ==
    IF Len(s) < 2 THEN s
    ELSE IF /\ SubSeq(s, 1, 2) = pat
            /\ IF word_follows THEN Len(s) >= 3 /\ WordChar(s[3])
               ELSE Len(s) = 2 \/ ~WordChar(s[3])
         THEN repl \o re_sub_boundary(SubSeq(s, 3, Len(s)), pat, repl, word_follows)
         ELSE <<Head(s)>> \o re_sub_boundary(Tail(s), pat, repl, word_follows)

\* sorted(S) for a set of strings
RECURSIVE SortedSeq(_)
SortedSeq(S) ==
    IF S = {} THEN <<>> ELSE <<FirstStr(S)>> \o SortedSeq(S \ {FirstStr(S)})

\* the set of variants of clean_name_terms before it is filtered; the curly
\* quotes are the characters "rsquo" and "lsquo"
name_variants(name) ==
    LET n == Replace(Replace(name, <<"rsquo">>, <<"'">>), <<"lsquo">>, <<"'">>)
    IN {n,
        Replace(n, <<"'">>, <<>>),
        Replace(n, <<"'">>, <<" ">>),
        re_sub_boundary(n, <<"'","s">>, <<>>, FALSE),
        re_sub_boundary(n, <<"'","s">>, <<"s">>, FALSE),
        re_sub_boundary(n, <<"s","'">>, <<"s">>, TRUE)}

\* clean_name_terms
clean_name_terms(name) ==
    Join(SortedSeq({Strip(v) : v \in {x \in name_variants(name) : Strip(x) # <<>>}}),
         <<";">>)

\* the valid domains of one comma-separated cell, lines 116-120
cell_domains(val) ==
    IF val.na \/ val.s = <<>> THEN {}
    ELSE LET pieces == Split(val.s, ",")
         IN {clean_domain(Lower(Strip(pieces[i]))) :
                i \in {j \in 1..Len(pieces) :
                          is_valid_domain(clean_domain(Lower(Strip(pieces[j]))))}}

\* process_domains for a row with the domain column Website and the column
\* Email
process_domains(row) ==
    cell_domains(row.Website)
    \cup (IF ~row.Email.na /\ is_valid_domain(extract_email_domain(row.Email.s))
          THEN {extract_email_domain(row.Email.s)} ELSE {})

\* the loop of process_search_terms over the rows of the file: the first row
\* of an account makes its record, later rows of the account are skipped
RECURSIVE processed_data(_, _)
processed_data(rows, seen_accounts) ==
    IF rows = <<>> THEN <<>>
    ELSE IF Head(rows).account_id \in seen_accounts
         THEN processed_data(Tail(rows), seen_accounts)
         ELSE <<[account_id |-> Head(rows).account_id,
                 account_name |-> Head(rows).account_name,
                 name_terms |-> clean_name_terms(Head(rows).account_name),
                 email_terms |-> Join(SortedSeq(process_domains(Head(rows))), <<";">>)]>>
              \o processed_data(Tail(rows), seen_accounts \cup {Head(rows).account_id})

\* process_search_terms: the records written to the search-terms file
process_search_terms(file) == processed_data(file, {})


\* --------------------------------------- calls of the preprocessing functions
\* candidate domains
DomainArgs ==
    {[fn |-> "is_valid_domain", domain |-> d] : d \in
        {<<"f","a","c","e","b","o","o","k",".","c","o","m">>,
         <<"a","c","m","e","1","2","3",".","c","o","m">>,
         <<"a","c","m","e","-","c","o",".","c","o","m">>,
         <<"b","o","l","t",".","i","o">>,
         <<"a","b","c","1","2","3",".","c","o","m">>,
         <<"x",".","i","o","9">>,
         <<" ","B","o","l","t",".","I","O"," ">>,
         <<"-","a",".","c","o","m">>,
         <<"a",".","b">>,
         <<"o","l","i","v","e",".","c","o","m">>,
         <<"r","e","p","o","r","t",".","p","d","f">>,
         <<"b","o","l","t",".","c">>,
         <<"n","/","a">>,
         <<>>,
         <<"s","i","t","e",".","n","e","t","7">>,
         <<"m","y","-","s","i","t","e",".","c","o",".","u","k">>,
         <<"b",".","i","o">>,
         <<"x","y",".","i","o">>,
         <<"b","o","l","t",".",".","i","o">>,
         <<"b","o","l","t","_","x",".","i","o">>}}

\* account names
NameArgs ==
    {[fn |-> "clean_name_terms", name |-> n] : n \in
        {<<"O","'","B","r","i","e","n","'","s"," ","W","a","s","t","e">>,
         <<"A","c","m","e">>,
         <<" "," ","B","o","b","'","s"," ">>,
         <<"'">>,
         <<"J","o","n","e","s","'"," ","C","o">>,
         <<"M","c","rsquo","K","a","y">>,
         <<"s","'","x">>,
         <<>>,
         <<"i","t","'","s","'","s">>,
         <<"lsquo","A","rsquo">>,
         <<"J","a","m","e","s","'","s"," ","B","a","r">>,
         <<"a"," ","'","s">>}}

\* the rows of an accounts file: account_id, account_name, the domain column
\* Website and the column Email; two rows of A1 differ in name and domains,
\* two rows of A2 differ in domains
MaxFileRows == 2
AccountRows ==
    {[account_id |-> "A1", account_name |-> <<"A","c","m","e">>,
      Website |-> Cell(<<"h","t","t","p","s",":","/","/","w","w","w",".","b","o","l","t",".","i","o","/">>),
      Email |-> NaN],
     [account_id |-> "A1", account_name |-> <<"O","'","B","r","i","e","n","'","s"," ","W","a","s","t","e">>,
      Website |-> Cell(<<"x","y",".","i","o",","," ","f","a","c","e","b","o","o","k",".","c","o","m">>),
      Email |-> Cell(<<"j","a","n","e","@","o","l","i","v","e",".","c","o","m">>)],
     [account_id |-> "A2", account_name |-> <<"J","o","n","e","s","'"," ","C","o">>,
      Website |-> NaN,
      Email |-> Cell(<<"b","o","b","@","X","Y",".","i","o">>)],
     [account_id |-> "A2", account_name |-> <<"J","o","n","e","s","'"," ","C","o">>,
      Website |-> Cell(<<"m","y","-","s","i","t","e",".","c","o",".","u","k">>),
      Email |-> NaN],
     [account_id |-> "A3", account_name |-> <<"A","c","m","e">>,
      Website |-> NaN,
      Email |-> NaN]}

AccountFiles == UNION {[1..n -> AccountRows] : n \in 1..MaxFileRows}

FileArgs == {[fn |-> "process_search_terms", file |-> f] : f \in AccountFiles}

PreprocessInit ==
    /\ RCRAIdle
    /\ current_year = Min(CurrentYears)
    /\ arg \in DomainArgs \cup NameArgs \cup FileArgs
    /\ ret = NoReturn
    /\ ScriptIdle
    /\ JoinIdle

\* is_valid_domain(domain)
call_is_valid_domain ==
    /\ ret = NoReturn
    /\ arg.fn = "is_valid_domain"
    /\ ret' = [fn |-> "is_valid_domain", raised |-> FALSE,
               value |-> is_valid_domain(arg.domain)]
    /\ UNCHANGED <<rcra_vars, join_vars, current_year, arg, script_vars>>

\* clean_name_terms(name)
call_clean_name_terms ==
    /\ ret = NoReturn
    /\ arg.fn = "clean_name_terms"
    /\ ret' = [fn |-> "clean_name_terms", raised |-> FALSE,
               value |-> clean_name_terms(arg.name)]
    /\ UNCHANGED <<rcra_vars, join_vars, current_year, arg, script_vars>>

\* process_search_terms(input_path, output_path): value is the rows written
\* to output_path
call_process_search_terms ==
    /\ ret = NoReturn
    /\ arg.fn = "process_search_terms"
    /\ ret' = [fn |-> "process_search_terms", raised |-> FALSE,
               value |-> process_search_terms(arg.file)]
    /\ UNCHANGED <<rcra_vars, join_vars, current_year, arg, script_vars>>

PreprocessNext ==
    \/ call_is_valid_domain
    \/ call_clean_name_terms
    \/ call_process_search_terms

PreprocessSpec == PreprocessInit /\ [][PreprocessNext]_vars

\* ------------------------------------------------------------------ claims
\* the account ids of the batch of the current run
BatchIds == unique_ids(search_terms)

\* the six conditions of search(), each on its own field
AnyOfSix(row, h) ==
    \/ cond_name(row, h.handler_name)
    \/ cond_name(row, h.owner_names)
    \/ cond_name(row, h.operator_names)
    \/ cond_email(row, h.contact_email_domain)
    \/ cond_email(row, h.owner_email_domains)
    \/ cond_email(row, h.operator_email_domains)

\* the rows of the table with one account id, as a set
RowsOf(table, id) == {r \in BagToSet(table) : r.account_id = id}

\* C1 (scoped replacement): during and after a run, every row whose account_id
\* is not among the batch's account ids is in the relation exactly as often as
\* before the run: none removed, altered or duplicated.
C1_ScopedReplacement ==
    \A r \in BagToSet(pre) \cup BagToSet(account_matched_facilities) :
        r.account_id \notin BatchIds =>
            CopiesIn(r, account_matched_facilities) = CopiesIn(r, pre)

\* a finished run that replaced rows of its batch while rows of another account
\* were stored
C1_Witness ==
    /\ pc = "done"
    /\ \E r \in BagToSet(pre) : r.account_id \notin BatchIds
    /\ \E r \in BagToSet(pre) : r.account_id \in BatchIds
    /\ account_matched_facilities # pre

\* C2 (idempotence): a run that directly follows a finished run on the same
\* batch, with the facility snapshot unchanged, ends with the same rows and
\* writes the same summary.
C2_Idempotence ==
    (pc = "done" /\ prev.valid /\ prev.terms = search_terms) =>
        /\ account_matched_facilities = prev.matched
        /\ search_summary.rows = prev.summary

\* the second of two runs on the same two-row batch has finished, with rows stored
C2_Witness ==
    /\ pc = "done"
    /\ prev.valid
    /\ prev.terms = search_terms
    /\ Len(search_terms) = 2
    /\ account_matched_facilities # EmptyBag

\* the relation a run over terms leaves when every search succeeds
RECURSIVE InsertAll(_, _, _)
InsertAll(table, terms, cr) ==
    IF terms = <<>> THEN table
    ELSE InsertAll(table (+) matches(Head(terms), cr), Tail(terms), cr)
CompleteResult ==
    InsertAll(delete_old_records_for_accounts(pre, search_terms), search_terms,
              current_record)

\* a cell with no term in it: NaN (an empty CSV cell) or only blanks and ';'
EmptyCell(c) == c.na \/ StripNonEmpty(Split(c.s, ";")) = <<>>
EmptyTerms(row) == EmptyCell(row.name_terms) /\ EmptyCell(row.email_terms)

\* a batch of distinct accounts, each with terms
WellFormedBatch ==
    /\ \A i, j \in 1..Len(search_terms) :
          search_terms[i].account_id = search_terms[j].account_id => i = j
    /\ \A i \in 1..Len(search_terms) : ~EmptyTerms(search_terms[i])

\* row i of the batch: search() was called for it and returned
Completed(i) == i \in Range(searched) /\ ~(error.raised /\ error.idx = i)

\* C3 (all-or-nothing batch): after a failed run (here: of a batch of distinct
\* accounts that all have terms) the relation is either what it was before the
\* run or the complete result of the run.
C3_AllOrNothing ==
    (pc = "failed" /\ WellFormedBatch) =>
        \/ account_matched_facilities = pre
        \/ account_matched_facilities = CompleteResult

\* C4 (full replacement per account): after a successful run, for every account
\* id of the batch the rows with that id are exactly the rows of the facilities
\* of the current snapshot that satisfy one of the account's six conditions.
C4_FullReplacement ==
    pc = "done" =>
        \A i \in 1..Len(search_terms) :
            RowsOf(account_matched_facilities, search_terms[i].account_id) =
                {match_row(search_terms[i], h) :
                    h \in {v \in handler_owner_operator(current_record) :
                              AnyOfSix(search_terms[i], v)}}

\* a finished run after which a row an earlier run stored for an account of the
\* batch is gone, while the account still has rows
C4_Witness ==
    /\ pc = "done"
    /\ \E r \in BagToSet(pre) :
          /\ r.account_id \in BatchIds
          /\ r \notin BagToSet(account_matched_facilities)
          /\ RowsOf(account_matched_facilities, r.account_id) # {}

\* C5 (one row per pair): the relation holds at most one row per account id and
\* facility key.
C5_OneRowPerPair ==
    \A r \in BagToSet(account_matched_facilities) :
        BagCardinality(BagFilter(account_matched_facilities,
            {x \in BagToSet(account_matched_facilities) :
                x.account_id = r.account_id /\ x.h.handler_id = r.h.handler_id})) <= 1

\* the search-term row of an account id (one row per id in TermRows)
TermRowOf(id) == CHOOSE row \in TermRows : row.account_id = id

C7_EmptyTermsMatchNothing ==
    \A i \in 1..Len(search_terms) :
        (Completed(i) /\ EmptyTerms(search_terms[i])) =>
            RowsOf(account_matched_facilities, search_terms[i].account_id) = {}

\* the six flags of a stored row, in the order of the table's columns
Flags(r) == <<r.handler_name_match, r.owner_name_match, r.operator_name_match,
              r.contact_email_match, r.owner_email_match, r.operator_email_match>>

\* the scenario of C8: the batch is the one account "Acme Corp" and the snapshot
\* is the one facility "ACME CORP LLC" (F1)
AcmeScenario ==
    /\ pc = "done"
    /\ search_terms = <<AcmeRow>>
    /\ {h \in HandlerIds : current_record[h] = "Y"} = {"F1"}

C9_FailFast ==
    error.raised =>
        /\ pc = "failed"
        /\ searched = [i \in 1..error.idx |-> i]
        /\ Len(results) = error.idx - 1
        /\ search_summary.run # runs

\* a run failed on a row that is not the last of its batch
C9_Witness ==
    /\ pc = "failed"
    /\ error.raised
    /\ error.idx < Len(search_terms)

\* C10 (per-account attribution): every failure of an account's search is
\* reported together with that account's name.
C10_Attribution ==
    error.raised =>
        /\ error.attributed
        /\ error.account_name = search_terms[error.idx].account_name.s

\* C11 (schema validation precedes mutation): whenever the search terms handed
\* to the matcher lack one of the columns account_id, account_name, name_terms,
\* email_terms, the relation is what it was before that run.
C11_SchemaBeforeMutation ==
    columns # needed => account_matched_facilities = pre

\* the fields of a stored row that hold e-mail domains, each with its flag
DomainFlags(r) ==
    { <<r.h.contact_email_domain, r.contact_email_match>>,
      <<r.h.owner_email_domains, r.owner_email_match>>,
      <<r.h.operator_email_domains, r.operator_email_match>> }

\* C12 (exact domain membership): in every stored row an e-mail flag is true
\* only if the lower-cased domain field equals one of the account's email
\* terms; a field that only contains a term never sets the flag.
C12_ExactDomain ==
    \A r \in BagToSet(account_matched_facilities) :
        LET terms == Range(email_list(TermRowOf(r.account_id)))
        IN \A df \in DomainFlags(r) :
              /\ df[2] => (~df[1].null /\ \E term \in terms : Lower(df[1].s) = term)
              /\ (/\ ~df[1].null
                  /\ Lower(df[1].s) \notin terms
                  /\ \E term \in terms : Contains(Lower(df[1].s), term)) => ~df[2]

\* a stored row of the account with the term "acme.com" for the facility whose
\* contact domain is acme.com, whose owner domain is acme.com.mx and whose
\* operator domain is notacme.com: only the contact flag is set
C12_Witness ==
    \E r \in BagToSet(account_matched_facilities) :
        /\ r.account_id = "A1"
        /\ r.h.handler_id = "F1"
        /\ s_acme_com \in Range(email_list(TermRowOf(r.account_id)))
        /\ r.contact_email_match
        /\ Lower(r.h.owner_email_domains.s) # s_acme_com
        /\ Contains(Lower(r.h.owner_email_domains.s), s_acme_com)
        /\ ~r.owner_email_match
        /\ Lower(r.h.operator_email_domains.s) # s_acme_com
        /\ Contains(Lower(r.h.operator_email_domains.s), s_acme_com)
        /\ ~r.operator_email_match

\* the year with the largest z-score of a series whose counts are not all equal
\* (the largest count; the first such year), and whether that z-score,
\* (n v - S) / sqrt(n Q - S^2), is at least 2
MaxZYear(values) ==
    Min({y \in DOMAIN values : \A w \in DOMAIN values : values[w] <= values[y]})
MaxZAtLeast2(values) ==
    LET n == Cardinality(DOMAIN values)
        dev == n * values[MaxZYear(values)] - SetSum(DOMAIN values, values)
    IN dev * dev >= 4 * ScaledVar(DOMAIN values, values)

\* C17 (spike rule): spike_year returns no spike when the population standard
\* deviation of the counts is zero; otherwise the year with the largest z-score
\* if that z-score is >= 2, and null if it is not.  ([1,1,1,1,20] has z-score
\* 2 in its last year, [1,2,3,4,5] has largest z-score 1.41.)
C17_SpikeRule ==
    (ret.fn = "spike_year" /\ ~ret.raised) =>
        ret.value = IF ScaledVar(DOMAIN arg.values, arg.values) = 0 THEN None
                    ELSE IF MaxZAtLeast2(arg.values)
                         THEN Some(MaxZYear(arg.values))
                         ELSE None

\* the counts grow strictly from each year of the series to the next one
StrictlyIncreasing(values) ==
    \A y, w \in DOMAIN values : y < w => values[y] < values[w]

\* C18 (slope sign): slope_pct is > 0 for a series with at least two years
\* whose counts grow strictly with the year, and 0.0 for a constant series, a
\* series with fewer than two years and a series whose counts are all zero.
C18_SlopeSign ==
    ret.fn = "slope_pct" =>
        LET values == arg.values
            years == DOMAIN values
        IN /\ (Cardinality(years) >= 2 /\ StrictlyIncreasing(values))
                  => ret.value.h > 0
           /\ (\/ Cardinality(years) < 2
               \/ \A y, w \in years : values[y] = values[w]
               \/ \A y \in years : values[y] = 0)
                  => ret.value.h = 0

\* the types with rows in both periods, and the order of their share ratios
\* (r_c / R) / (e_c / E) <= (r_d / R) / (e_d / E), for positive counts
InBoth(df, recent_start) ==
    {r.type : r \in {x \in df : x.year >= recent_start}}
        \cap {r.type : r \in {x \in df : x.year < recent_start}}
RatioLeq(df, recent_start, c, d) ==
    LET r(t) == SetSum({x \in df : x.type = t /\ x.year >= recent_start},
                       [x \in df |-> x.cnt])
        e(t) == SetSum({x \in df : x.type = t /\ x.year < recent_start},
                       [x \in df |-> x.cnt])
    IN r(c) * e(d) <= r(d) * e(c)

\* C19 (emerging category): emerging_type returns null when the recent or the
\* early partition is empty and when no type occurs in both; otherwise it
\* returns a type that occurs in both periods and whose share ratio is the
\* largest among the types that occur in both.
C19_EmergingType ==
    ret.fn = "emerging_type" =>
        LET df == arg.df
            rs == arg.recent_start
        IN /\ ({x \in df : x.year >= rs} = {} \/ {x \in df : x.year < rs} = {})
                  => ret.value = Null
           /\ ret.value.null <=> InBoth(df, rs) = {}
           /\ ~ret.value.null =>
                  /\ ret.value.s \in InBoth(df, rs)
                  /\ \A d \in InBoth(df, rs) : RatioLeq(df, rs, d, ret.value.s)

\* a frame in which CEI has the larger recent count and FCI, returned, the
\* larger share ratio
C19_Witness ==
    /\ ret.fn = "emerging_type"
    /\ ret.value = Val(s_FCI)
    /\ InBoth(arg.df, arg.recent_start) = {s_CEI, s_FCI}
    /\ ~RatioLeq(arg.df, arg.recent_start, s_FCI, s_CEI)
    /\ \E x, y \in arg.df : /\ x.year >= arg.recent_start /\ x.type = s_CEI
                            /\ y.year >= arg.recent_start /\ y.type = s_FCI
                            /\ x.cnt > y.cnt

\* the days of the calendar years from to..to
DaysOfYears(from, to) ==
    SetSum(from..to, [y \in from..to |-> IF IsLeap(y) THEN 366 ELSE 365])

\* the date d (YYYYMMDD) is a day of the calendar years cy - n .. cy - 1
InWindow(d, cy, n) ==
    /\ IsDate(d)
    /\ DayNumber(d) >= DayNumber(win_begin(cy, n))
    /\ DayNumber(d) <= DayNumber(win_end(cy, n))
    /\ ToInt(SubSeq(d, 1, 4)) \in (cy - n)..(cy - 1)

\* C16: the window runs from January 1 of current_year - N to December 31 of
\* current_year - 1, which are exactly N complete calendar years without the
\* current one, and every row of the evaluation, violation and enforcement
\* views has its filter date inside the window and an account id that is not
\* null.
C16_WindowBounds ==
    script_pc # "off" =>
        LET wb == win_begin(current_year, YEARS_LOOKBACK)
            we == win_end(current_year, YEARS_LOOKBACK)
        IN /\ IsDate(wb) /\ IsDate(we)
           /\ ToInt(SubSeq(wb, 1, 4)) = current_year - YEARS_LOOKBACK
           /\ SubSeq(wb, 5, 8) = <<"0","1","0","1">>
           /\ ToInt(SubSeq(we, 1, 4)) = current_year - 1
           /\ SubSeq(we, 5, 8) = <<"1","2","3","1">>
           /\ DayNumber(we) + 1 - DayNumber(wb)
                 = DaysOfYears(current_year - YEARS_LOOKBACK, current_year - 1)
           /\ \A r \in EVALS_WIN :
                 InWindow(r.eval_start_date, current_year, YEARS_LOOKBACK)
                 /\ ~r.account_id.null
           /\ \A r \in VIOLATIONS_WIN :
                 InWindow(r.determined_date, current_year, YEARS_LOOKBACK)
                 /\ ~r.account_id.null
           /\ \A r \in ENFS_WIN :
                 InWindow(r.enf_action_date, current_year, YEARS_LOOKBACK)
                 /\ ~r.account_id.null

\* The script has finished with rows in all three views, while the table held
\* an evaluation of the current year and one from before the window at matched
\* facilities, and an evaluation inside the window at a facility without an
\* account.
C16_Witness ==
    /\ script_pc = "done"
    /\ EVALS_WIN # {} /\ VIOLATIONS_WIN # {} /\ ENFS_WIN # {}
    /\ \E r \in ce_reporting, af \in amf :
          /\ r.handler_id = af.handler_id /\ ~af.account_id.null
          /\ ~r.eval_start_date.null
          /\ ToInt(SubSeq(r.eval_start_date.s, 1, 4)) = current_year
    /\ \E r \in ce_reporting, af \in amf :
          /\ r.handler_id = af.handler_id /\ ~af.account_id.null
          /\ ~r.eval_start_date.null
          /\ ToInt(SubSeq(r.eval_start_date.s, 1, 4)) < current_year - YEARS_LOOKBACK
    /\ \E r \in ce_reporting, af \in amf :
          /\ r.handler_id = af.handler_id /\ af.account_id.null
          /\ ~r.eval_start_date.null
          /\ InWindow(r.eval_start_date.s, current_year, YEARS_LOOKBACK)

\* the row of an output table is the row of account acc
IsAccountRow(row, acc) == "account_id" \in DOMAIN row /\ row.account_id = acc

\* C13: for every account id in the evaluations view the account-level table
\* has one row of that account, without the contact column, whose metrics are
\* computed over all in-window events of the account whatever the contact (its
\* evaluation, violation and enforcement counts are the numbers of distinct
\* in-window events linked to the account).
C13_AccountTable ==
    script_pc = "done" =>
        \A k \in account_keys(EVALS_WIN) :
            \E i \in 1..Len(account_df) :
                /\ IsAccountRow(account_df[i], k[1])
                /\ "contact_email" \notin DOMAIN account_df[i]
                /\ account_df[i].evaluations_5y
                      = Cardinality({r.eval_pk : r \in {x \in EVALS_WIN : x.account_id = k[1]}})
                /\ account_df[i].violations_5y
                      = Cardinality({r.viol_pk : r \in {x \in VIOLATIONS_WIN : x.account_id = k[1]}})
                /\ account_df[i].enforcement_actions_5y
                      = Cardinality({r.enf_pk : r \in {x \in ENFS_WIN : x.account_id = k[1]}})
                /\ \A j \in 1..Len(account_df) :
                      IsAccountRow(account_df[j], k[1]) => j = i

\* a slice of the key is not empty
SomeSlice(email, acc) ==
    Slice(EVALS_WIN, email, acc) \cup Slice(VIOLATIONS_WIN, email, acc)
        \cup Slice(ENFS_WIN, email, acc) # {}

\* C14: a key whose evaluation, violation and enforcement slices are all empty
\* contributes no row: each output table has as many rows as it has keys with
\* a slice that is not empty, and no row without a key.
C14_EmptyKeySkipped ==
    script_pc = "done" =>
        /\ Len(contact_df)
              = Cardinality({k \in contact_keys(EVALS_WIN) : SomeSlice(Val(k[1]), k[2])})
        /\ Len(account_df)
              = Cardinality({k \in account_keys(EVALS_WIN) : SomeSlice(Null, k[1])})
        /\ \A i \in 1..Len(contact_df) : DOMAIN contact_df[i] # {}
        /\ \A i \in 1..Len(account_df) : DOMAIN account_df[i] # {}

\* the row carries the open-violation count of the violations viols and the
\* mean of their durations that are not null
NullPropagated(row, viols) ==
    LET d == {x \in viols : ~x.days_to_resolve.none}
    IN /\ "open_violations" \in DOMAIN row
       /\ row.open_violations = Cardinality(viols \ d)
       /\ IF d = {} THEN row.avg_days_to_resolve.none
          ELSE /\ ~row.avg_days_to_resolve.none
               /\ row.avg_days_to_resolve.v * Cardinality(d)
                     = SetSum(d, [x \in d |-> x.days_to_resolve.v])

\* C15: a violation without a return-to-compliance date or without a
\* determination date has a null days_to_resolve; for every key of the two
\* tables open_violations is the number of the key's in-window violations with
\* a null days_to_resolve, and avg_days_to_resolve is the mean of the durations
\* that are not null, null when there is none.
C15_NullPropagation ==
    script_pc = "done" =>
        /\ \A r \in VIOLATIONS_WIN :
              (\A c \in ce_reporting :
                  CONCAT_WS(<<Val(c.handler_id), c.viol_seq>>) = r.viol_pk
                      => c.actual_rtc_date.null \/ c.determined_date.null)
                  => r.days_to_resolve.none
        /\ \A k \in contact_keys(EVALS_WIN) :
              \E i \in 1..Len(contact_df) :
                  /\ IsAccountRow(contact_df[i], k[2])
                  /\ contact_df[i].contact_email = k[1]
                  /\ NullPropagated(contact_df[i],
                        {v \in VIOLATIONS_WIN : v.contact_email = k[1] /\ v.account_id = k[2]})
        /\ \A k \in account_keys(EVALS_WIN) :
              \E i \in 1..Len(account_df) :
                  /\ IsAccountRow(account_df[i], k[1])
                  /\ NullPropagated(account_df[i],
                        {v \in VIOLATIONS_WIN : v.account_id = k[1]})

\* C20: build_metrics never raises: for every key and every content of its
\* slices it returns a row whose trend and anomaly fields are numbers or nulls.
C20_NeverRaises == raised # "build_metrics"

\* the e-mail domains of the owners (ind = "CO") or operators (ind = "CP") of
\* facility id, lower-cased
PartyDomains(id, ind) ==
    {Lower(regexp_extract_domain(hd_owner_operator[i].email.s)) :
        i \in {j \in 1..Len(hd_owner_operator) :
                  /\ hd_owner_operator[j].handler_id = id
                  /\ hd_owner_operator[j].owner_operator_indicator = ind
                  /\ ~hd_owner_operator[j].email.null}}

\* C30: in every stored row owner_email_match (operator_email_match) is true
\* when the e-mail domain of at least one owner (operator) of the facility is
\* one of the account's email terms, however many other owners (operators) the
\* facility has.
C30_AnyOwnerDomain ==
    \A r \in BagToSet(account_matched_facilities) :
        LET terms == Range(email_list(TermRowOf(r.account_id)))
        IN /\ PartyDomains(r.h.handler_id, "CO") \cap terms # {} => r.owner_email_match
           /\ PartyDomains(r.h.handler_id, "CP") \cap terms # {} => r.operator_email_match

FlagColumns ==
    {"handler_name_match", "owner_name_match", "operator_name_match",
     "contact_email_match", "owner_email_match", "operator_email_match"}

\* the rows stored for account id, and those of them with the flag col set
StoredFor(id) ==
    BagCardinality(BagFilter(account_matched_facilities,
        {r \in DOMAIN account_matched_facilities : r.account_id = id}))
StoredWith(id, col) ==
    BagCardinality(BagFilter(account_matched_facilities,
        {r \in DOMAIN account_matched_facilities : r.account_id = id /\ r[col]}))

\* the summary entry e reports what is stored for its account
EntryAgrees(e) ==
    /\ e.total_matches = StoredFor(e.account_id)
    /\ \A col \in FlagColumns : e[col] = StoredWith(e.account_id, col)
    /\ \A col \in FlagColumns : e[col] <= e.total_matches
    /\ e.total_matches <= SetSum(FlagColumns, [col \in FlagColumns |-> e[col]])

\* C25: after a successful run the summary has one entry per searched account;
\* its total_matches is the number of rows stored for the account at the end of
\* the run and each of its six flag counts is the number of those rows with the
\* flag set, so every flag count <= total_matches <= the sum of the flag counts.
C25_MatchSummary ==
    pc = "done" =>
        /\ \A id \in unique_ids(search_terms) :
              Cardinality({i \in 1..Len(search_summary.rows) :
                              search_summary.rows[i].account_id = id}) = 1
        /\ \A i \in 1..Len(search_summary.rows) :
              /\ search_summary.rows[i].account_id \in unique_ids(search_terms)
              /\ EntryAgrees(search_summary.rows[i])

\* four years of the series share one count and the fifth, year y, has a
\* strictly larger one
FourEqualOneLarger(values, y) ==
    /\ Cardinality(DOMAIN values) = 5
    /\ y \in DOMAIN values
    /\ \A a, b \in DOMAIN values \ {y} : values[a] = values[b]
    /\ \A a \in DOMAIN values \ {y} : values[a] < values[y]

\* C27: on a series of at most five years spike_year reports a spike only when
\* the series has exactly five years of which four share one count and the
\* fifth, the reported one, is strictly larger; a series with fewer than five
\* years (years without events are absent) gives null.
C27_SpikeNeedsFiveYears ==
    (ret.fn = "spike_year" /\ ~ret.raised /\ Cardinality(DOMAIN arg.values) <= 5) =>
        /\ ~ret.value.none => FourEqualOneLarger(arg.values, ret.value.v)
        /\ Cardinality(DOMAIN arg.values) < 5 => ret.value.none

\* a spike reported for a five-year series
C27_Witness ==
    /\ ret.fn = "spike_year" /\ ~ret.raised
    /\ Cardinality(DOMAIN arg.values) = 5
    /\ ~ret.value.none
    /\ FourEqualOneLarger(arg.values, ret.value.v)

\* C28: an in-window event at a facility matched to several accounts or
\* contacts is in the windowed view once for each of them, so that no account
\* or contact misses an event of one of its matched facilities.
C28_CountedForEachAccount ==
    script_pc \in {"contacts", "accounts", "done"} =>
        LET wb == win_begin(current_year, YEARS_LOOKBACK)
            we == win_end(current_year, YEARS_LOOKBACK)
        IN /\ \A p \in q_eval_rows(ce_reporting, amf, wb, we) :
                 \E r \in EVALS_WIN :
                     /\ r.eval_pk = eval_row(p).eval_pk
                     /\ r.account_id = p[2].account_id
                     /\ r.contact_email = contact_email_of(p[2])
           /\ \A p \in q_viol_rows(ce_reporting, amf, wb, we) :
                 \E r \in VIOLATIONS_WIN :
                     /\ r.viol_pk = viol_row(p).viol_pk
                     /\ r.account_id = p[2].account_id
                     /\ r.contact_email = contact_email_of(p[2])
           /\ \A p \in q_enf_rows(ce_reporting, amf, wb, we) :
                 \E r \in ENFS_WIN :
                     /\ r.enf_pk = enf_row(p).enf_pk
                     /\ r.account_id = p[2].account_id
                     /\ r.contact_email = contact_email_of(p[2])

\* C29: a violation returned to compliance on or after its determination date
\* has a days_to_resolve that is the number of days from the determination to
\* the return to compliance, which is not negative; avg_days_to_resolve is not
\* negative when all resolved violations were resolved on or after
\* determination.
C29_DaysNonNegative ==
    /\ \A r \in VIOLATIONS_WIN : \A c \in ce_reporting :
          (/\ CONCAT_WS(<<Val(c.handler_id), c.viol_seq>>) = r.viol_pk
           /\ ~c.actual_rtc_date.null /\ ~c.determined_date.null
           /\ DayNumber(c.actual_rtc_date.s) >= DayNumber(c.determined_date.s))
              => /\ ~r.days_to_resolve.none
                 /\ r.days_to_resolve.v >= 0
                 /\ r.days_to_resolve.v
                       = DayNumber(c.actual_rtc_date.s) - DayNumber(c.determined_date.s)
    /\ (\A c \in ce_reporting :
           (~c.actual_rtc_date.null /\ ~c.determined_date.null)
               => DayNumber(c.actual_rtc_date.s) >= DayNumber(c.determined_date.s))
          => \A i \in 1..Len(contact_df) :
                 \/ contact_df[i].avg_days_to_resolve.none
                 \/ contact_df[i].avg_days_to_resolve.v >= 0

\* C24: an event whose date is not a parseable YYYYMMDD date is left out of
\* the windowed view of its kind (it is never taken as inside the window) and
\* never makes the window queries fail.
C24_UnparseableLeftOut ==
    /\ raised # "fetch"
    /\ \A r \in EVALS_WIN : IsDate(r.eval_start_date)
    /\ \A r \in VIOLATIONS_WIN : IsDate(r.determined_date)
    /\ \A r \in ENFS_WIN : IsDate(r.enf_action_date)

\* C26: a run of the join script keeps the rows that were stored for accounts
\* absent from its input file.
C26_OtherAccountsKept ==
    joins > 0 =>
        \A r \in BagToSet(pre) :
            r.account_id \notin {SRC[i].account_id : i \in 1..Len(SRC)}
                => r \in BagToSet(account_matched_facilities)

\* C21: is_valid_domain("facebook.com") is false, is_valid_domain("acme123.com")
\* is false and is_valid_domain("acme-co.com") is true; a candidate is accepted
\* exactly when, lower-cased, it contains no blocklisted substring, does not
\* end in digits and has the shape of a domain name.
C21_DomainValidation ==
    (ret.fn = "is_valid_domain") =>
        LET d == Strip(Lower(arg.domain))
        IN /\ arg.domain = <<"f","a","c","e","b","o","o","k",".","c","o","m">>
                => ret.value = FALSE
           /\ arg.domain = <<"a","c","m","e","1","2","3",".","c","o","m">>
                => ret.value = FALSE
           /\ arg.domain = <<"a","c","m","e","-","c","o",".","c","o","m">>
                => ret.value = TRUE
           /\ ret.value = (/\ \A p \in Range(exclude_patterns) : ~Contains(d, p)
                           /\ ~EndsInDigits(d)
                           /\ DomainShape(d))

\* C22: clean_name_terms("O'Brien's Waste") contains "O'Brien's Waste",
\* "OBriens Waste", "O Briens Waste" and the name with the possessive stripped
\* ("O'Brien Waste"); for every name the result is the ';'-join of the
\* trimmed, non-empty variants, without duplicates and in sorted order.
s_OBriensWaste == <<"O","'","B","r","i","e","n","'","s"," ","W","a","s","t","e">>
NameTermsOf(value) == IF value = <<>> THEN <<>> ELSE Split(value, ";")
C22_NameVariants ==
    (ret.fn = "clean_name_terms") =>
        LET terms == NameTermsOf(ret.value)
        IN /\ arg.name = s_OBriensWaste =>
                {s_OBriensWaste,
                 <<"O","B","r","i","e","n","s"," ","W","a","s","t","e">>,
                 <<"O"," ","B","r","i","e","n","s"," ","W","a","s","t","e">>,
                 <<"O","'","B","r","i","e","n"," ","W","a","s","t","e">>}
                    \subseteq Range(terms)
           /\ Range(terms) = {Strip(v) : v \in name_variants(arg.name)} \ {<<>>}
           /\ \A i \in 1..Len(terms) : terms[i] = Strip(terms[i]) /\ terms[i] # <<>>
           /\ \A i, j \in 1..Len(terms) : i < j => StrLess(terms[i], terms[j])

\* the input file with its rows in another order
Reorderings(file) ==
    {[i \in 1..Len(file) |-> file[p[i]]] :
        p \in {q \in [1..Len(file) -> 1..Len(file)] : Range(q) = 1..Len(file)}}

\* C23: process_search_terms yields exactly one row per distinct account_id of
\* its input, and the set of rows it yields is the same for every permutation
\* of the input rows, also when several rows share one account_id but differ
\* in name or domain columns.
C23_OrderIndependent ==
    (ret.fn = "process_search_terms") =>
        /\ {ret.value[i].account_id : i \in 1..Len(ret.value)}
              = {arg.file[i].account_id : i \in 1..Len(arg.file)}
        /\ \A i, j \in 1..Len(ret.value) :
              ret.value[i].account_id = ret.value[j].account_id => i = j
        /\ \A f \in Reorderings(arg.file) :
              Range(process_search_terms(f)) = Range(ret.value)
====
